---- MODULE Spec2Model ----
(***************************************************************************)
(* json-fixer: tokenizer, fault-tolerant parser and multi-mode formatter.  *)
(*                                                                         *)
(* Text is a sequence of characters, a character is a one-character        *)
(* string.  fix / fix_with_config is a pure function of (input, config);   *)
(* the state machine draws an input and a configuration, applies the       *)
(* whole call in one action, and may feed an Ok result back in.  SpecTurns *)
(* follows one call through the loops of the parser instead.               *)
(***************************************************************************)
EXTENDS Integers, Sequences, FiniteSets, TLC

VARIABLES
    input,    \* the text handed to fix_with_config
    expect,   \* the reference text drawn with the input; each Init states what it is
    config,   \* the JsonFixerConfig of the call
    result,   \* the Result of the last call
    first,    \* the Result of the first call, once its output was fixed again
    run,      \* the parser between two loop turns, when a call is followed turn by turn
    pc        \* "ready", "fixed" (one call made), "refixed" (output fixed again);
              \* turn by turn: "ready", "parsing", "parsed"

vars == <<input, expect, config, result, first, run, pc>>

(***************************************************************************)
(* Characters                                                              *)
(***************************************************************************)
LF  == "\n"
TAB == "\t"
CR  == "\r"
BS  == "<U+0008>"
FF  == "<U+000C>"
DQ  == "\""
SQ  == "'"
BSL == "\\"
GRAVE == "<U+0060>"

Digits == {"0", "1", "2", "3", "4", "5", "6", "7", "8", "9"}

LowerLetters == {"a", "b", "c", "d", "e", "f", "g", "h", "i", "j", "k", "l", "m",
                 "n", "o", "p", "q", "r", "s", "t", "u", "v", "w", "x", "y", "z"}

UpperLetters == {"A", "B", "C", "D", "E", "F", "G", "H", "I", "J", "K", "L", "M",
                 "N", "O", "P", "Q", "R", "S", "T", "U", "V", "W", "X", "Y", "Z"}

\* A character outside U+0020..U+007E other than LF, TAB and CR is written
\* "<U+XXXX>", XXXX its scalar value in four to six upper-case hexadecimal
\* digits (so BS, FF and GRAVE above).
HexDigitNames ==
    <<"0", "1", "2", "3", "4", "5", "6", "7", "8", "9", "A", "B", "C", "D", "E", "F">>

RECURSIVE HexText(_, _)
HexText(code, width) ==
    IF width <= 0 /\ code = 0 THEN ""
    ELSE HexText(code \div 16, width - 1) \o HexDigitNames[(code % 16) + 1]

CharName(code) == "<U+" \o HexText(code, 4) \o ">"

IsNamed(ch) == Len(ch) > 1

\* the number written in hexadecimal at text[from..to]
RECURSIVE HexNumber(_, _, _)
HexNumber(text, from, to) ==
    IF to < from THEN 0
    ELSE HexNumber(text, from, to - 1) * 16
         + (CHOOSE d \in 0..15 : HexDigitNames[d + 1] = SubSeq(text, to, to))

\* the scalar value of a character written "<U+XXXX>"
NamedCode(ch) == HexNumber(ch, 4, Len(ch) - 1)

\* char::is_whitespace: the White_Space property
IsWhitespace(ch) ==
    ch \in {" ", LF, TAB, CR, FF, "<U+000B>", "<U+0085>", "<U+00A0>", "<U+1680>",
            "<U+2000>", "<U+2001>", "<U+2002>", "<U+2003>", "<U+2004>", "<U+2005>",
            "<U+2006>", "<U+2007>", "<U+2008>", "<U+2009>", "<U+200A>", "<U+2028>",
            "<U+2029>", "<U+202F>", "<U+205F>", "<U+3000>"}

\* char::is_digit(10)
IsDigit(ch) == ch \in Digits

\* the identifier-start arm of next_token: 'a'..='z' | 'A'..='Z' | '_'
IsIdentStart(ch) == ch \in LowerLetters \cup UpperLetters \cup {"_"}

\* the scalar values from U+0080 on that are Alphabetic or Numeric (general
\* category Nd, Nl or No), Unicode 17.0: ascending ranges, each written as
\* its first and its last value in five hexadecimal digits, seven ranges to
\* a row
AlphanumericRows ==
    <<"000AA000AA000B2000B3000B5000B5000B9000BA000BC000BE000C0000D6000D8000F6",
      "000F8002C1002C6002D1002E0002E4002EC002EC002EE002EE00345003450036300374",
      "00376003770037A0037D0037F0037F0038600386003880038A0038C0038C0038E003A1",
      "003A3003F5003F7004810048A0052F005310055600559005590056000588005B0005BD",
      "005BF005BF005C1005C2005C4005C5005C7005C7005D0005EA005EF005F2006100061A",
      "006200065700659006690066E006D3006D5006DC006E1006E8006ED006FC006FF006FF",
      "007100073F0074D007B1007C0007EA007F4007F5007FA007FA00800008170081A0082C",
      "0084000858008600086A0087000887008890088F0089700897008A0008C9008D4008DF",
      "008E3008E9008F00093B0093D0094C0094E009500095500963009660096F0097100983",
      "009850098C0098F0099000993009A8009AA009B0009B2009B2009B6009B9009BD009C4",
      "009C7009C8009CB009CC009CE009CE009D7009D7009DC009DD009DF009E3009E6009F1",
      "009F4009F9009FC009FC00A0100A0300A0500A0A00A0F00A1000A1300A2800A2A00A30",
      "00A3200A3300A3500A3600A3800A3900A3E00A4200A4700A4800A4B00A4C00A5100A51",
      "00A5900A5C00A5E00A5E00A6600A7500A8100A8300A8500A8D00A8F00A9100A9300AA8",
      "00AAA00AB000AB200AB300AB500AB900ABD00AC500AC700AC900ACB00ACC00AD000AD0",
      "00AE000AE300AE600AEF00AF900AFC00B0100B0300B0500B0C00B0F00B1000B1300B28",
      "00B2A00B3000B3200B3300B3500B3900B3D00B4400B4700B4800B4B00B4C00B5600B57",
      "00B5C00B5D00B5F00B6300B6600B6F00B7100B7700B8200B8300B8500B8A00B8E00B90",
      "00B9200B9500B9900B9A00B9C00B9C00B9E00B9F00BA300BA400BA800BAA00BAE00BB9",
      "00BBE00BC200BC600BC800BCA00BCC00BD000BD000BD700BD700BE600BF200C0000C0C",
      "00C0E00C1000C1200C2800C2A00C3900C3D00C4400C4600C4800C4A00C4C00C5500C56",
      "00C5800C5A00C5C00C5D00C6000C6300C6600C6F00C7800C7E00C8000C8300C8500C8C",
      "00C8E00C9000C9200CA800CAA00CB300CB500CB900CBD00CC400CC600CC800CCA00CCC",
      "00CD500CD600CDC00CDE00CE000CE300CE600CEF00CF100CF300D0000D0C00D0E00D10",
      "00D1200D3A00D3D00D4400D4600D4800D4A00D4C00D4E00D4E00D5400D6300D6600D78",
      "00D7A00D7F00D8100D8300D8500D9600D9A00DB100DB300DBB00DBD00DBD00DC000DC6",
      "00DCF00DD400DD600DD600DD800DDF00DE600DEF00DF200DF300E0100E3A00E4000E46",
      "00E4D00E4D00E5000E5900E8100E8200E8400E8400E8600E8A00E8C00EA300EA500EA5",
      "00EA700EB900EBB00EBD00EC000EC400EC600EC600ECD00ECD00ED000ED900EDC00EDF",
      "00F0000F0000F2000F3300F4000F4700F4900F6C00F7100F8300F8800F9700F9900FBC",
      "010000103601038010380103B01049010500109D010A0010C5010C7010C7010CD010CD",
      "010D0010FA010FC012480124A0124D012500125601258012580125A0125D0126001288",
      "0128A0128D01290012B0012B2012B5012B8012BE012C0012C0012C2012C5012C8012D6",
      "012D8013100131201315013180135A013690137C013800138F013A0013F5013F8013FD",
      "014010166C0166F0167F016810169A016A0016EA016EE016F801700017130171F01733",
      "0174001753017600176C0176E01770017720177301780017B3017B6017C8017D7017D7",
      "017DC017DC017E0017E9017F0017F90181001819018200187801880018AA018B0018F5",
      "019000191E019200192B0193001938019460196D019700197401980019AB019B0019C9",
      "019D0019DA01A0001A1B01A2001A5E01A6101A7401A8001A8901A9001A9901AA701AA7",
      "01ABF01AC001ACC01ACE01B0001B3301B3501B4301B4501B4C01B5001B5901B8001BA9",
      "01BAC01BE501BE701BF101C0001C3601C4001C4901C4D01C7D01C8001C8A01C9001CBA",
      "01CBD01CBF01CE901CEC01CEE01CF301CF501CF601CFA01CFA01D0001DBF01DD301DF4",
      "01E0001F1501F1801F1D01F2001F4501F4801F4D01F5001F5701F5901F5901F5B01F5B",
      "01F5D01F5D01F5F01F7D01F8001FB401FB601FBC01FBE01FBE01FC201FC401FC601FCC",
      "01FD001FD301FD601FDB01FE001FEC01FF201FF401FF601FFC02070020710207402079",
      "0207F02089020900209C021020210202107021070210A021130211502115021190211D",
      "0212402124021260212602128021280212A0212D0212F021390213C0213F0214502149",
      "0214E0214E0215002189024600249B024B6024FF027760279302C0002CE402CEB02CEE",
      "02CF202CF302CFD02CFD02D0002D2502D2702D2702D2D02D2D02D3002D6702D6F02D6F",
      "02D8002D9602DA002DA602DA802DAE02DB002DB602DB802DBE02DC002DC602DC802DCE",
      "02DD002DD602DD802DDE02DE002DFF02E2F02E2F030050300703021030290303103035",
      "030380303C03041030960309D0309F030A1030FA030FC030FF031050312F031310318E",
      "0319203195031A0031BF031F0031FF0322003229032480324F032510325F0328003289",
      "032B1032BF0340004DBF04E000A48C0A4D00A4FD0A5000A60C0A6100A62B0A6400A66E",
      "0A6740A67B0A67F0A6EF0A7170A71F0A7220A7880A78B0A7DC0A7F10A8050A8070A827",
      "0A8300A8350A8400A8730A8800A8C30A8C50A8C50A8D00A8D90A8F20A8F70A8FB0A8FB",
      "0A8FD0A92A0A9300A9520A9600A97C0A9800A9B20A9B40A9BF0A9CF0A9D90A9E00A9FE",
      "0AA000AA360AA400AA4D0AA500AA590AA600AA760AA7A0AABE0AAC00AAC00AAC20AAC2",
      "0AADB0AADD0AAE00AAEF0AAF20AAF50AB010AB060AB090AB0E0AB110AB160AB200AB26",
      "0AB280AB2E0AB300AB5A0AB5C0AB690AB700ABEA0ABF00ABF90AC000D7A30D7B00D7C6",
      "0D7CB0D7FB0F9000FA6D0FA700FAD90FB000FB060FB130FB170FB1D0FB280FB2A0FB36",
      "0FB380FB3C0FB3E0FB3E0FB400FB410FB430FB440FB460FBB10FBD30FD3D0FD500FD8F",
      "0FD920FDC70FDF00FDFB0FE700FE740FE760FEFC0FF100FF190FF210FF3A0FF410FF5A",
      "0FF660FFBE0FFC20FFC70FFCA0FFCF0FFD20FFD70FFDA0FFDC100001000B1000D10026",
      "100281003A1003C1003D1003F1004D100501005D10080100FA10107101331014010178",
      "1018A1018B102801029C102A0102D0102E1102FB10300103231032D1034A103501037A",
      "103801039D103A0103C3103C8103CF103D1103D5104001049D104A0104A9104B0104D3",
      "104D8104FB10500105271053010563105701057A1057C1058A1058C105921059410595",
      "10597105A1105A3105B1105B3105B9105BB105BC105C0105F310600107361074010755",
      "1076010767107801078510787107B0107B2107BA108001080510808108081080A10835",
      "10837108381083C1083C1083F108551085810876108791089E108A7108AF108E0108F2",
      "108F4108F5108FB1091B1092010939109401095910980109B7109BC109CF109D210A03",
      "10A0510A0610A0C10A1310A1510A1710A1910A3510A4010A4810A6010A7E10A8010A9F",
      "10AC010AC710AC910AE410AEB10AEF10B0010B3510B4010B5510B5810B7210B7810B91",
      "10BA910BAF10C0010C4810C8010CB210CC010CF210CFA10D2710D3010D3910D4010D65",
      "10D6910D6910D6F10D8510E6010E7E10E8010EA910EAB10EAC10EB010EB110EC210EC7",
      "10EFA10EFC10F0010F2710F3010F4510F5110F5410F7010F8110FB010FCB10FE010FF6",
      "1100011045110521106F110711107511080110B8110C2110C2110D0110E8110F0110F9",
      "1110011132111361113F11144111471115011172111761117611180111BF111C1111C4",
      "111CE111DA111DC111DC111E1111F41120011211112131123411237112371123E11241",
      "112801128611288112881128A1128D1128F1129D1129F112A8112B0112E8112F0112F9",
      "1130011303113051130C1130F1131011313113281132A1133011332113331133511339",
      "1133D1134411347113481134B1134C113501135011357113571135D113631138011389",
      "1138B1138B1138E1138E11390113B5113B7113C0113C2113C2113C5113C5113C7113CA",
      "113CC113CD113D1113D1113D3113D311400114411144311445114471144A1145011459",
      "1145F1146111480114C1114C4114C5114C7114C7114D0114D911580115B5115B8115BE",
      "115D8115DD116001163E11640116401164411644116501165911680116B5116B8116B8",
      "116C0116C9116D0116E3117001171A1171D1172A117301173B11740117461180011838",
      "118A0118F2118FF1190611909119091190C11913119151191611918119351193711938",
      "1193B1193C1193F119421195011959119A0119A7119AA119D7119DA119DF119E1119E1",
      "119E3119E411A0011A3211A3511A3E11A5011A9711A9D11A9D11AB011AF811B6011B67",
      "11BC011BE011BF011BF911C0011C0811C0A11C3611C3811C3E11C4011C4011C5011C6C",
      "11C7211C8F11C9211CA711CA911CB611D0011D0611D0811D0911D0B11D3611D3A11D3A",
      "11D3C11D3D11D3F11D4111D4311D4311D4611D4711D5011D5911D6011D6511D6711D68",
      "11D6A11D8E11D9011D9111D9311D9611D9811D9811DA011DA911DB011DDB11DE011DE9",
      "11EE011EF611F0011F1011F1211F3A11F3E11F4011F5011F5911FB011FB011FC011FD4",
      "1200012399124001246E124801254312F9012FF0130001342F134411344613460143FA",
      "1440014646161001612E16130161391680016A3816A4016A5E16A6016A6916A7016ABE",
      "16AC016AC916AD016AED16B0016B2F16B4016B4316B5016B5916B5B16B6116B6316B77",
      "16B7D16B8F16D4016D6C16D7016D7916E4016E9616EA016EB816EBB16ED316F0016F4A",
      "16F4F16F8716F8F16F9F16FE016FE116FE316FE316FF016FF61700018CD518CFF18D1E",
      "18D8018DF21AFF01AFF31AFF51AFFB1AFFD1AFFE1B0001B1221B1321B1321B1501B152",
      "1B1551B1551B1641B1671B1701B2FB1BC001BC6A1BC701BC7C1BC801BC881BC901BC99",
      "1BC9E1BC9E1CCF01CCF91D2C01D2D31D2E01D2F31D3601D3781D4001D4541D4561D49C",
      "1D49E1D49F1D4A21D4A21D4A51D4A61D4A91D4AC1D4AE1D4B91D4BB1D4BB1D4BD1D4C3",
      "1D4C51D5051D5071D50A1D50D1D5141D5161D51C1D51E1D5391D53B1D53E1D5401D544",
      "1D5461D5461D54A1D5501D5521D6A51D6A81D6C01D6C21D6DA1D6DC1D6FA1D6FC1D714",
      "1D7161D7341D7361D74E1D7501D76E1D7701D7881D78A1D7A81D7AA1D7C21D7C41D7CB",
      "1D7CE1D7FF1DF001DF1E1DF251DF2A1E0001E0061E0081E0181E01B1E0211E0231E024",
      "1E0261E02A1E0301E06D1E08F1E08F1E1001E12C1E1371E13D1E1401E1491E14E1E14E",
      "1E2901E2AD1E2C01E2EB1E2F01E2F91E4D01E4EB1E4F01E4F91E5D01E5ED1E5F01E5FA",
      "1E6C01E6DE1E6E01E6F51E6FE1E6FF1E7E01E7E61E7E81E7EB1E7ED1E7EE1E7F01E7FE",
      "1E8001E8C41E8C71E8CF1E9001E9431E9471E9471E94B1E94B1E9501E9591EC711ECAB",
      "1ECAD1ECAF1ECB11ECB41ED011ED2D1ED2F1ED3D1EE001EE031EE051EE1F1EE211EE22",
      "1EE241EE241EE271EE271EE291EE321EE341EE371EE391EE391EE3B1EE3B1EE421EE42",
      "1EE471EE471EE491EE491EE4B1EE4B1EE4D1EE4F1EE511EE521EE541EE541EE571EE57",
      "1EE591EE591EE5B1EE5B1EE5D1EE5D1EE5F1EE5F1EE611EE621EE641EE641EE671EE6A",
      "1EE6C1EE721EE741EE771EE791EE7C1EE7E1EE7E1EE801EE891EE8B1EE9B1EEA11EEA3",
      "1EEA51EEA91EEAB1EEBB1F1001F10C1F1301F1491F1501F1691F1701F1891FBF01FBF9",
      "200002A6DF2A7002B81D2B8202CEAD2CEB02EBE02EBF02EE5D2F8002FA1D300003134A",
      "3135033479">>

AlphanumericCount == 841

\* code lies in one of the ranges lo..hi (a binary search: the ranges ascend)
RECURSIVE InRanges(_, _, _)
InRanges(code, lo, hi) ==
    LET Probe(mid, row, col) ==
            IF code < HexNumber(row, col + 1, col + 5) THEN InRanges(code, lo, mid - 1)
            ELSE IF code > HexNumber(row, col + 6, col + 10) THEN InRanges(code, mid + 1, hi)
            ELSE TRUE
        At(mid) == Probe(mid, AlphanumericRows[((mid - 1) \div 7) + 1], ((mid - 1) % 7) * 10)
    IN  lo <= hi /\ At((lo + hi) \div 2)

\* char::is_alphanumeric: is_alphabetic() || is_numeric()
IsAlphanumeric(ch) ==
    IF IsNamed(ch) THEN InRanges(NamedCode(ch), 1, AlphanumericCount)
    ELSE ch \in LowerLetters \cup UpperLetters \cup Digits

\* the characters U+0020..U+007E in code order
Ascii ==
    <<" ", "!", DQ, "#", "$", "%", "&", SQ, "(", ")", "*", "+", ",", "-", ".", "/",
      "0", "1", "2", "3", "4", "5", "6", "7", "8", "9", ":", ";", "<", "=", ">", "?",
      "@", "A", "B", "C", "D", "E", "F", "G", "H", "I", "J", "K", "L", "M", "N", "O",
      "P", "Q", "R", "S", "T", "U", "V", "W", "X", "Y", "Z", "[", BSL, "]", "^", "_",
      GRAVE, "a", "b", "c", "d", "e", "f", "g", "h", "i", "j", "k", "l", "m", "n", "o",
      "p", "q", "r", "s", "t", "u", "v", "w", "x", "y", "z", "{", "|", "}", "~">>

\* the scalar value of a character (the order String::cmp compares by)
CharCode(ch) ==
    CASE IsNamed(ch) -> NamedCode(ch)
      [] ch = TAB -> 9 [] ch = LF -> 10 [] ch = CR -> 13
      [] OTHER -> 31 + (CHOOSE k \in 1..Len(Ascii) : Ascii[k] = ch)

\* char::len_utf8
LenUtf8(ch) ==
    LET Bytes(code) ==
            IF code < 128 THEN 1 ELSE IF code < 2048 THEN 2 ELSE IF code < 65536 THEN 3 ELSE 4
    IN  IF IsNamed(ch) THEN Bytes(NamedCode(ch)) ELSE 1

(***************************************************************************)
(* Position, Token, errors                                                 *)
(***************************************************************************)
Position(l, c) == [line |-> l, column |-> c]

NoPos == Position(0, 0)

Token(ty, txt, p) == [type |-> ty, text |-> txt, pos |-> p]

\* Option<Token>::None
NoneToken == Token("None", <<>>, NoPos)

\* JsonFixerError::Syntax(kind(arg, pos)); the message text of
\* UnexpectedToken is not modelled (arg is empty there).
SyntaxError(k, a, p) == [kind |-> k, arg |-> a, pos |-> p]

NoError == SyntaxError("None", <<>>, NoPos)

(***************************************************************************)
(* JsonTokenizer: the input and the state {index of the next character,    *)
(* line, column}                                                           *)
(***************************************************************************)
TokenizerNew == [i |-> 1, line |-> 1, column |-> 0]

HasChar(s, tz) == tz.i <= Len(s)

\* self.input.peek(), defined when HasChar
Peek(s, tz) == s[tz.i]

\* advance() on the character ch = Peek(s, tz)
Advance(tz, ch) ==
    [i |-> tz.i + 1,
     line |-> IF ch = LF THEN tz.line + 1 ELSE tz.line,
     column |-> IF ch = LF THEN 1 ELSE tz.column + 1]

CurrentPosition(tz) == Position(tz.line, tz.column)

TokOk(tok, tz) == [ok |-> TRUE, tok |-> tok, err |-> NoError, tz |-> tz]

TokErr(err, tz) == [ok |-> FALSE, tok |-> NoneToken, err |-> err, tz |-> tz]

RECURSIVE WhitespaceLoop(_, _, _)
WhitespaceLoop(s, tz, whitespaces) ==
    IF HasChar(s, tz) /\ IsWhitespace(Peek(s, tz))
    THEN WhitespaceLoop(s, Advance(tz, Peek(s, tz)), Append(whitespaces, Peek(s, tz)))
    ELSE [text |-> whitespaces, tz |-> tz]

\* tz is the state after the first whitespace character was consumed
TokenizeWhitespaces(s, tz, first_space) ==
    LET start_pos == CurrentPosition(tz)
        r == WhitespaceLoop(s, tz, <<first_space>>)
    IN  TokOk(Token("Whitespace", r.text, start_pos), r.tz)

HexDigitValue(h) ==
    CASE h = "0" -> 0 [] h = "1" -> 1 [] h = "2" -> 2 [] h = "3" -> 3
      [] h = "4" -> 4 [] h = "5" -> 5 [] h = "6" -> 6 [] h = "7" -> 7
      [] h = "8" -> 8 [] h = "9" -> 9
      [] h \in {"a", "A"} -> 10 [] h \in {"b", "B"} -> 11
      [] h \in {"c", "C"} -> 12 [] h \in {"d", "D"} -> 13
      [] h \in {"e", "E"} -> 14 [] h \in {"f", "F"} -> 15
      [] OTHER -> -1

RECURSIVE HexValue(_)
HexValue(hex) ==
    IF hex = <<>> THEN 0
    ELSE HexValue(SubSeq(hex, 1, Len(hex) - 1)) * 16 + HexDigitValue(hex[Len(hex)])

\* u32::from_str_radix(&hex, 16).is_ok(): an optional '+', then one or more
\* hexadecimal digits (at most four characters are ever collected)
IsHexText(hex) ==
    LET body == IF hex # <<>> /\ hex[1] = "+" THEN Tail(hex) ELSE hex
    IN  body # <<>> /\ \A k \in 1..Len(body) : HexDigitValue(body[k]) >= 0

\* std::char::from_u32: Some(ch) as <<ch>>; a surrogate or a value above
\* U+10FFFF is None, <<>>
CharFromU32(code) ==
    CASE code = 9 -> <<TAB>> [] code = 10 -> <<LF>> [] code = 13 -> <<CR>>
      [] code >= 32 /\ code <= 126 -> <<Ascii[code - 31]>>
      [] code >= 55296 /\ code <= 57343 -> <<>>
      [] code > 1114111 -> <<>>
      [] OTHER -> <<CharName(code)>>

\* the four advance() calls of the \u arm: the characters collected, and the
\* tokenizer after them
RECURSIVE CollectHex(_, _, _, _)
CollectHex(s, tz, hex, n) ==
    IF n = 0 THEN [hex |-> hex, tz |-> tz]
    ELSE IF HasChar(s, tz)
         THEN CollectHex(s, Advance(tz, Peek(s, tz)), Append(hex, Peek(s, tz)), n - 1)
         ELSE CollectHex(s, tz, hex, n - 1)

UnicodeEscape(hex) ==
    IF IsHexText(hex)
    THEN CharFromU32(HexValue(IF hex[1] = "+" THEN Tail(hex) ELSE hex))
    ELSE <<>>

\* the character(s) pushed for the escape \next_ch (not 'u')
EscapeChar(next_ch) ==
    CASE next_ch \in {DQ, BSL, "/"} -> next_ch
      [] next_ch = "b" -> BS
      [] next_ch = "f" -> FF
      [] next_ch = "n" -> LF
      [] next_ch = "r" -> CR
      [] next_ch = "t" -> TAB
      [] OTHER -> next_ch

RECURSIVE StringLoop(_, _, _, _, _)
StringLoop(s, tz, quote_char, res, start_pos) ==
    IF ~HasChar(s, tz)
    THEN TokErr(SyntaxError("UnmatchedQuotes", <<>>, start_pos), tz)
    ELSE LET ch == Peek(s, tz)
             t1 == Advance(tz, ch)
         IN  IF ch = quote_char
             THEN TokOk(Token("String", res, start_pos), t1)
             ELSE IF ch = BSL
             THEN IF HasChar(s, t1)
                  THEN LET next_ch == Peek(s, t1)
                           t2 == Advance(t1, next_ch)
                       IN  IF next_ch = "u"
                           THEN LET h == CollectHex(s, t2, <<>>, 4)
                                IN  StringLoop(s, h.tz, quote_char,
                                               res \o UnicodeEscape(h.hex), start_pos)
                           ELSE StringLoop(s, t2, quote_char,
                                           Append(res, EscapeChar(next_ch)), start_pos)
                  ELSE StringLoop(s, t1, quote_char, res, start_pos)
             ELSE StringLoop(s, t1, quote_char, Append(res, ch), start_pos)

\* tz is the state after the opening quote was consumed
TokenizeString(s, tz, quote_char) ==
    StringLoop(s, tz, quote_char, <<>>, CurrentPosition(tz))

\* a text without its last character (String::pop)
Front(str) == SubSeq(str, 1, Len(str) - 1)

IsNumberChar(ch) == IsDigit(ch) \/ ch \in {".", "e", "E", "+", "-"}

RECURSIVE NumberLoop(_, _, _, _, _)
NumberLoop(s, tz, first_char, number, multi_dots) ==
    IF HasChar(s, tz) /\ IsNumberChar(Peek(s, tz))
    THEN NumberLoop(s, Advance(tz, Peek(s, tz)), first_char,
                    Append(number, Peek(s, tz)),
                    multi_dots \/ (first_char = "." /\ Peek(s, tz) = "."))
    ELSE [number |-> number, multi_dots |-> multi_dots, tz |-> tz]

\* A faulty tokenize_number, for comparison: the leading '+' is kept in the
\* number text (the `number.clear()` of the '+' arm is missing).
TokenizeNumberKeepsPlus(s, tz, first_char) ==
    LET start_pos == CurrentPosition(tz)
        Finish(r) ==
            IF r.multi_dots
            THEN TokErr(SyntaxError("InvalidNumber", r.number, start_pos), r.tz)
            ELSE TokOk(Token("Number",
                             IF r.number[Len(r.number)] = "." THEN Front(r.number)
                             ELSE r.number,
                             CurrentPosition(r.tz)), r.tz)
    IN  IF first_char \in {"+", "."} /\ (~HasChar(s, tz) \/ ~IsDigit(Peek(s, tz)))
        THEN TokErr(SyntaxError("InvalidNumber", <<first_char>>, start_pos), tz)
        ELSE Finish(NumberLoop(s, tz, first_char,
                               IF first_char = "." THEN <<"0", ".">> ELSE <<first_char>>,
                               FALSE))

\* tz is the state after first_char was consumed
TokenizeNumber(s, tz, first_char) ==
    LET start_pos == CurrentPosition(tz)
        number0 == <<first_char>>
    IN  IF first_char \in {"+", "."} /\ (~HasChar(s, tz) \/ ~IsDigit(Peek(s, tz)))
        THEN TokErr(SyntaxError("InvalidNumber", number0, start_pos), tz)
        ELSE LET number1 == IF first_char = "+" THEN <<>>
                            ELSE IF first_char = "." THEN <<"0", ".">>
                            ELSE number0
                 r == NumberLoop(s, tz, first_char, number1, FALSE)
             IN  IF r.multi_dots
                 THEN TokErr(SyntaxError("InvalidNumber", r.number, start_pos), r.tz)
                 ELSE LET number2 == IF r.number[Len(r.number)] = "."
                                     THEN SubSeq(r.number, 1, Len(r.number) - 1)
                                     ELSE r.number
                      IN  TokOk(Token("Number", number2, CurrentPosition(r.tz)), r.tz)

RECURSIVE IdentifierLoop(_, _, _)
IdentifierLoop(s, tz, ident) ==
    IF HasChar(s, tz) /\ (IsAlphanumeric(Peek(s, tz)) \/ Peek(s, tz) = "_")
    THEN IdentifierLoop(s, Advance(tz, Peek(s, tz)), Append(ident, Peek(s, tz)))
    ELSE [text |-> ident, tz |-> tz]

\* tz is the state after first_char was consumed
TokenizeIdentifier(s, tz, first_char) ==
    LET start_pos == CurrentPosition(tz)
        r == IdentifierLoop(s, tz, <<first_char>>)
    IN  IF r.text = <<"t", "r", "u", "e">> \/ r.text = <<"f", "a", "l", "s", "e">>
        THEN TokOk(Token("Boolean", r.text, start_pos), r.tz)
        ELSE IF r.text = <<"n", "u", "l", "l">>
        THEN TokOk(Token("Null", <<>>, start_pos), r.tz)
        ELSE TokOk(Token("UnquotedString", r.text, start_pos), r.tz)

PunctuationType(ch) ==
    CASE ch = "{" -> "LeftBrace" [] ch = "}" -> "RightBrace"
      [] ch = "[" -> "LeftBracket" [] ch = "]" -> "RightBracket"
      [] ch = ":" -> "Colon" [] ch = "," -> "Comma"

\* next_token(): Ok(Some(token)), Ok(None) as NoneToken, or Err
NextToken(s, tz) ==
    IF ~HasChar(s, tz) THEN TokOk(NoneToken, tz)
    ELSE LET ch == Peek(s, tz)
             t1 == Advance(tz, ch)
         IN  CASE IsWhitespace(ch) -> TokenizeWhitespaces(s, t1, ch)
               [] ch \in {"{", "}", "[", "]", ":", ","} ->
                    TokOk(Token(PunctuationType(ch), <<>>, CurrentPosition(t1)), t1)
               [] ch \in {SQ, DQ} -> TokenizeString(s, t1, ch)
               [] ch \in {".", "+", "-"} \/ IsDigit(ch) -> TokenizeNumber(s, t1, ch)
               [] IsIdentStart(ch) -> TokenizeIdentifier(s, t1, ch)
               [] OTHER ->
                    TokErr(SyntaxError("UnexpectedCharacter", <<ch>>, CurrentPosition(t1)), t1)

(***************************************************************************)
(* Document model: JsonValue and JsonEntryValue                            *)
(***************************************************************************)
JsonValue(ty, b, txt, es) == [type |-> ty, b |-> b, text |-> txt, entries |-> es]

JNull == JsonValue("Null", FALSE, <<>>, <<>>)

JBoolean(b) == JsonValue("Boolean", b, <<>>, <<>>)

JNumber(n) == JsonValue("Number", FALSE, n, <<>>)

JString(str) == JsonValue("String", FALSE, str, <<>>)

JArray(arr) == JsonValue("Array", FALSE, <<>>, arr)

JObject(obj) == JsonValue("Object", FALSE, <<>>, obj)

JSpace(sp) == JsonValue("Space", FALSE, sp, <<>>)

\* Option<String>
SomeStr(str) == [some |-> TRUE, v |-> str]

NoneStr == [some |-> FALSE, v |-> <<>>]

\* Option<JsonValue>
SomeValue(val) == [some |-> TRUE, v |-> val]

NoneValue == [some |-> FALSE, v |-> JNull]

\* JsonEntryValue::new()
EntryNew ==
    [space_bf_key |-> NoneStr, key |-> NoneStr, space_af_key |-> NoneStr,
     space_bf_val |-> NoneStr, value |-> NoneValue, space_af_val |-> NoneStr]

\* get_sp_bf_key, get_key, ... : unwrap_or_default
GetStr(opt) == IF opt.some THEN opt.v ELSE <<>>

(***************************************************************************)
(* JsonParser: the tokenizer and the one lookahead token                   *)
(***************************************************************************)
ParseOk(val, p) == [ok |-> TRUE, val |-> val, err |-> NoError, p |-> p]

ParseErr(err, p) == [ok |-> FALSE, val |-> JNull, err |-> err, p |-> p]

\* advance(): current_token = next_token()?; on Err the lookahead is kept
ParserAdvance(s, p) ==
    LET Store(r) ==
            IF r.ok THEN [ok |-> TRUE, err |-> NoError, p |-> [tz |-> r.tz, cur |-> r.tok]]
            ELSE [ok |-> FALSE, err |-> r.err, p |-> [tz |-> r.tz, cur |-> p.cur]]
    IN  Store(NextToken(s, p.tz))

\* JsonParser::new: the Result of the first advance() is dropped
ParserNew(s) == ParserAdvance(s, [tz |-> TokenizerNew, cur |-> NoneToken]).p

\* if let Some(Whitespace(sp)) = current_token { slot = Some(sp); advance()?; }
ConsumeSpaces(s, p) ==
    LET Taken(a) == [ok |-> a.ok, err |-> a.err, p |-> a.p, sp |-> SomeStr(p.cur.text)]
    IN  IF p.cur.type = "Whitespace" THEN Taken(ParserAdvance(s, p))
        ELSE [ok |-> TRUE, err |-> NoError, p |-> p, sp |-> NoneStr]

\* str::replace('"', "\\\"")
RECURSIVE EscapeQuotes(_)
EscapeQuotes(str) ==
    IF str = <<>> THEN <<>>
    ELSE (IF Head(str) = DQ THEN <<BSL, DQ>> ELSE <<Head(str)>>) \o EscapeQuotes(Tail(str))

\* the longest prefix of digits of str
RECURSIVE DigitPrefixLen(_)
DigitPrefixLen(str) ==
    IF str # <<>> /\ IsDigit(Head(str)) THEN 1 + DigitPrefixLen(Tail(str)) ELSE 0

Drop(str, n) == SubSeq(str, n + 1, Len(str))

\* n.parse::<f64>().is_ok() on the characters a Number token can hold:
\*   Float ::= Sign? Number ; Exp ::= [eE] Sign? Digit+
\*   Number ::= (Digit+ | Digit+ '.' Digit* | Digit* '.' Digit+) Exp?
IsF64Text(n) ==
    LET unsigned == IF n # <<>> /\ n[1] \in {"+", "-"} THEN Tail(n) ELSE n
        k1 == DigitPrefixLen(unsigned)
        r1 == Drop(unsigned, k1)
        dot == r1 # <<>> /\ r1[1] = "."
        r2 == IF dot THEN Tail(r1) ELSE r1
        k2 == IF dot THEN DigitPrefixLen(r2) ELSE 0
        r3 == Drop(r2, k2)
        ex == IF r3 # <<>> /\ r3[1] \in {"e", "E"} THEN Tail(r3) ELSE <<>>
        exu == IF ex # <<>> /\ ex[1] \in {"+", "-"} THEN Tail(ex) ELSE ex
    IN  /\ k1 + k2 >= 1
        /\ \/ r3 = <<>>
           \/ /\ r3[1] \in {"e", "E"}
              /\ exu # <<>>
              /\ DigitPrefixLen(exu) = Len(exu)

\* The recursive descent.  Every call from one parsing routine to another goes
\* through Call, so that the recursion is a single self-reference:
\* Call("ParseValue", s, p, <<>>, EntryNew) is self.parse_value(), and the
\* labels of the loop bodies carry the entries pushed so far and the entry
\* under construction.
RECURSIVE Call(_, _, _, _, _)

\* parse_value(): a scalar leaves its own token as the lookahead
ParseValue(s, p) ==
    LET t == p.cur
    IN  CASE t.type = "LeftBrace" -> Call("ParseObject", s, p, <<>>, EntryNew)
          [] t.type = "LeftBracket" -> Call("ParseArray", s, p, <<>>, EntryNew)
          [] t.type = "String" -> ParseOk(JString(EscapeQuotes(t.text)), p)
          [] t.type = "Number" ->
                IF IsF64Text(t.text) THEN ParseOk(JNumber(t.text), p)
                ELSE ParseErr(SyntaxError("InvalidNumber", t.text, t.pos), p)
          [] t.type = "Boolean" -> ParseOk(JBoolean(t.text = <<"t", "r", "u", "e">>), p)
          [] t.type = "Null" -> ParseOk(JNull, p)
          [] t.type = "UnquotedString" ->
                ParseErr(SyntaxError("UnexpectedToken", t.text, t.pos), p)
          [] t.type = "None" ->
                ParseErr(SyntaxError("UnexpectedEndOfInput", <<>>, CurrentPosition(p.tz)), p)
          [] OTHER -> ParseErr(SyntaxError("UnexpectedToken", <<>>, t.pos), p)

\* `advance()?` followed by the rest of the routine: the error of advance()
\* is returned, otherwise control passes to `routine`
AdvanceThen(routine, s, p, entries, entry) ==
    LET Go(a) == IF a.ok THEN Call(routine, s, a.p, entries, entry) ELSE ParseErr(a.err, a.p)
    IN  Go(ParserAdvance(s, p))

\* after the entry loop of parse_object: advance()? (consume '}'), Ok(Object)
ObjectEnd(s, p, obj) ==
    LET Done(a) == IF a.ok THEN ParseOk(JObject(obj), a.p) ELSE ParseErr(a.err, a.p)
    IN  Done(ParserAdvance(s, p))

\* parse_object(): advance()? (consume '{'), then the entry loop
ParseObject(s, p) == AdvanceThen("ObjectLoop", s, p, <<>>, EntryNew)

\* one turn of `while !current_token.is_none()`: the first match
ObjectLoop(s, p, obj) ==
    CASE p.cur.type \in {"None", "RightBrace"} -> Call("ObjectEnd", s, p, obj, EntryNew)
      [] p.cur.type = "Comma" -> AdvanceThen("ObjectLoop", s, p, obj, EntryNew)
      [] p.cur.type = "Whitespace" ->
            AdvanceThen("ObjectKey", s, p, obj,
                        [EntryNew EXCEPT !.space_bf_key = SomeStr(p.cur.text)])
      [] OTHER -> Call("ObjectKey", s, p, obj, EntryNew)

\* the second match of the turn: "parse key"
ObjectKey(s, p, obj, entry) ==
    CASE p.cur.type \in {"None", "RightBrace"} ->
            Call("ObjectEnd", s, p, Append(obj, entry), EntryNew)
      [] p.cur.type = "Comma" -> AdvanceThen("ObjectLoop", s, p, Append(obj, entry), EntryNew)
      [] p.cur.type \in {"String", "UnquotedString"} ->
            AdvanceThen("ObjectColon", s, p, obj, [entry EXCEPT !.key = SomeStr(p.cur.text)])
      [] OTHER -> ParseErr(SyntaxError("UnexpectedToken", <<>>, p.cur.pos), p)

\* spaces before ':', the colon, spaces before the value
ObjectColon(s, p, obj, entry) ==
    LET BeforeValue(w1, w2) ==
            IF ~w2.ok THEN ParseErr(w2.err, w2.p)
            ELSE Call("ObjectEntryValue", s, w2.p, obj,
                      [entry EXCEPT !.space_af_key = w1.sp, !.space_bf_val = w2.sp])
        AfterColon(w1, a) ==
            IF ~a.ok THEN ParseErr(a.err, a.p) ELSE BeforeValue(w1, ConsumeSpaces(s, a.p))
        ExpectColon(w1) ==
            IF ~w1.ok THEN ParseErr(w1.err, w1.p)
            ELSE CASE w1.p.cur.type = "Colon" -> AfterColon(w1, ParserAdvance(s, w1.p))
                   [] w1.p.cur.type = "None" ->
                        ParseErr(SyntaxError("UnexpectedEndOfInput", <<>>,
                                             CurrentPosition(w1.p.tz)), w1.p)
                   [] OTHER ->
                        ParseErr(SyntaxError("UnexpectedToken", <<>>, w1.p.cur.pos), w1.p)
    IN  ExpectColon(ConsumeSpaces(s, p))

\* the value, spaces after it, then an unconditional advance()? and the push
ObjectEntryValue(s, p, obj, entry) ==
    LET Push(v, w, a) ==
            IF ~a.ok THEN ParseErr(a.err, a.p)
            ELSE Call("ObjectLoop", s, a.p,
                      Append(obj, [entry EXCEPT !.value = SomeValue(v.val),
                                                !.space_af_val = w.sp]),
                      EntryNew)
        AfterSpaces(v, w) ==
            IF ~w.ok THEN ParseErr(w.err, w.p) ELSE Push(v, w, ParserAdvance(s, w.p))
        AfterValue(v) == IF ~v.ok THEN v ELSE AfterSpaces(v, ConsumeSpaces(s, v.p))
    IN  AfterValue(Call("ParseValue", s, p, <<>>, EntryNew))

\* after the entry loop of parse_array: advance()? (consume ']'), Ok(Array)
ArrayEnd(s, p, arr) ==
    LET Done(a) == IF a.ok THEN ParseOk(JArray(arr), a.p) ELSE ParseErr(a.err, a.p)
    IN  Done(ParserAdvance(s, p))

\* parse_array(): advance()? (consume '['), then the entry loop
ParseArray(s, p) == AdvanceThen("ArrayLoop", s, p, <<>>, EntryNew)

\* one turn of `while !current_token.is_none()`: the first match
ArrayLoop(s, p, arr) ==
    CASE p.cur.type \in {"None", "RightBracket"} -> Call("ArrayEnd", s, p, arr, EntryNew)
      [] p.cur.type = "Comma" -> AdvanceThen("ArrayLoop", s, p, arr, EntryNew)
      [] p.cur.type = "Whitespace" ->
            AdvanceThen("ArrayEntry", s, p, arr,
                        [EntryNew EXCEPT !.space_bf_val = SomeStr(p.cur.text)])
      [] OTHER -> Call("ArrayEntry", s, p, arr, EntryNew)

\* the second match of the turn; the loop condition is tested again after it
ArrayEntry(s, p, arr, entry) ==
    LET Push(v, w) ==
            IF ~w.ok THEN ParseErr(w.err, w.p)
            ELSE Call("ArrayLoop", s, w.p,
                      Append(arr, [entry EXCEPT !.value = SomeValue(v.val),
                                                !.space_af_val = w.sp]),
                      EntryNew)
        AfterAdvance(v, a) ==
            IF ~a.ok THEN ParseErr(a.err, a.p) ELSE Push(v, ConsumeSpaces(s, a.p))
        \* a primitive value is consumed only when the lookahead did not move
        AfterValue(v) ==
            IF ~v.ok THEN v
            ELSE IF v.p.cur = p.cur THEN AfterAdvance(v, ParserAdvance(s, v.p))
            ELSE Push(v, ConsumeSpaces(s, v.p))
    IN  CASE p.cur.type = "RightBracket" ->
                Call("ArrayEnd", s, p, Append(arr, entry), EntryNew)
          [] p.cur.type = "Comma" ->
                AdvanceThen("ArrayLoop", s, p, Append(arr, entry), EntryNew)
          [] OTHER -> AfterValue(Call("ParseValue", s, p, <<>>, EntryNew))

Call(routine, s, p, entries, entry) ==
    CASE routine = "ParseValue" -> ParseValue(s, p)
      [] routine = "ParseObject" -> ParseObject(s, p)
      [] routine = "ObjectLoop" -> ObjectLoop(s, p, entries)
      [] routine = "ObjectKey" -> ObjectKey(s, p, entries, entry)
      [] routine = "ObjectColon" -> ObjectColon(s, p, entries, entry)
      [] routine = "ObjectEntryValue" -> ObjectEntryValue(s, p, entries, entry)
      [] routine = "ObjectEnd" -> ObjectEnd(s, p, entries)
      [] routine = "ParseArray" -> ParseArray(s, p)
      [] routine = "ArrayLoop" -> ArrayLoop(s, p, entries)
      [] routine = "ArrayEntry" -> ArrayEntry(s, p, entries, entry)
      [] routine = "ArrayEnd" -> ArrayEnd(s, p, entries)

(***************************************************************************)
(* JsonFixerConfig                                                         *)
(***************************************************************************)
Config(pr, sb, be, st, sz, sk) ==
    [preserve |-> pr, space_between |-> sb, beautify |-> be,
     indent_style |-> st, indent_size |-> sz, sort_keys |-> sk]

\* a variant of preserve() that gives way to beautify
CfgPreserveUnlessBeautify(cfg) == cfg.preserve /\ ~cfg.beautify

\* JsonFixerConfig::default()
DefaultConfig == Config(FALSE, FALSE, FALSE, "Spaces", 0, FALSE)

CfgPreserve(cfg) == cfg.preserve

CfgSpaceBetween(cfg) == cfg.space_between /\ cfg.preserve = FALSE

CfgBeautify(cfg) == cfg.beautify /\ cfg.preserve = FALSE

(***************************************************************************)
(* JsonFormatter: every operator takes the output written so far and       *)
(* returns it extended                                                     *)
(***************************************************************************)
RECURSIVE Repeat(_, _)
Repeat(str, n) == IF n <= 0 THEN <<>> ELSE str \o Repeat(str, n - 1)

\* IndentStyle::with_size(Some(size))
WithSize(style, size) == IF style = "Spaces" THEN Repeat(<<" ">>, size) ELSE <<TAB>>

WriteNewline(output) == Append(output, LF)

WriteIndent(output, depth, cfg) ==
    output \o Repeat(WithSize(cfg.indent_style, cfg.indent_size), depth)

\* String::cmp(a, b) = Less
RECURSIVE StrLess(_, _)
StrLess(a, b) ==
    IF b = <<>> THEN FALSE
    ELSE IF a = <<>> THEN TRUE
    ELSE IF Head(a) = Head(b) THEN StrLess(Tail(a), Tail(b))
    ELSE CharCode(Head(a)) < CharCode(Head(b))

\* Option<String>::cmp(a, b) = Less: None sorts before every Some
OptStrLess(a, b) ==
    IF a.some /\ b.some THEN StrLess(a.v, b.v) ELSE ~a.some /\ b.some

\* a variant of the sort that leaves the entries as they are
SortByKeyKeepsOrder(entries) == entries

\* sort_by is stable: e goes after every element that is not greater
RECURSIVE InsertByKey(_, _)
InsertByKey(sorted, e) ==
    IF sorted = <<>> THEN <<e>>
    ELSE IF OptStrLess(e.key, sorted[Len(sorted)].key)
         THEN Append(InsertByKey(SubSeq(sorted, 1, Len(sorted) - 1), e), sorted[Len(sorted)])
         ELSE Append(sorted, e)

RECURSIVE SortByKey(_)
SortByKey(entries) ==
    IF entries = <<>> THEN <<>>
    ELSE InsertByKey(SortByKey(SubSeq(entries, 1, Len(entries) - 1)), entries[Len(entries)])

\* Vec::retain(|e| e.value.is_some())
RECURSIVE RetainValues(_)
RetainValues(entries) ==
    IF entries = <<>> THEN <<>>
    ELSE (IF Head(entries).value.some THEN <<Head(entries)>> ELSE <<>>)
         \o RetainValues(Tail(entries))

RECURSIVE FormatValue(_, _, _, _)
RECURSIVE FormatArrayEntries(_, _, _, _, _)
RECURSIVE FormatArrayPreservedEntries(_, _, _, _, _)
RECURSIVE FormatObjectEntries(_, _, _, _, _)
RECURSIVE FormatObjectPreservedEntries(_, _, _, _, _)

\* the separator written before an element / pair that is not the first
Separator(output, cfg) ==
    LET o1 == Append(output, ",")
        o2 == IF CfgBeautify(cfg) THEN WriteNewline(o1) ELSE o1
    IN  IF CfgSpaceBetween(cfg) THEN Append(o2, " ") ELSE o2

\* what follows the opening bracket
Opening(output, cfg) ==
    LET o1 == IF CfgBeautify(cfg) THEN WriteNewline(output) ELSE output
    IN  IF CfgSpaceBetween(cfg) THEN Append(o1, " ") ELSE o1

\* what precedes the closing bracket
Closing(output, depth, cfg) ==
    LET o1 == IF CfgBeautify(cfg) THEN WriteIndent(WriteNewline(output), depth, cfg)
              ELSE output
    IN  IF CfgSpaceBetween(cfg) THEN Append(o1, " ") ELSE o1

\* the loop of format_array from index i on; i counts every entry of arr
FormatArrayEntries(arr, i, output, depth, cfg) ==
    IF i > Len(arr) THEN output
    ELSE IF arr[i].value.some
    THEN LET o1 == IF i > 1 THEN Separator(output, cfg) ELSE output
             o2 == IF CfgBeautify(cfg) THEN WriteIndent(o1, depth + 1, cfg) ELSE o1
         IN  FormatArrayEntries(arr, i + 1,
                                FormatValue(arr[i].value.v, o2, depth + 1, cfg), depth, cfg)
    ELSE FormatArrayEntries(arr, i + 1, output, depth, cfg)

FormatArray(arr, output, depth, cfg) ==
    IF arr = <<>> THEN output \o <<"[", "]">>
    ELSE Append(Closing(FormatArrayEntries(arr, 1, Opening(Append(output, "["), cfg),
                                           depth, cfg),
                        depth, cfg), "]")

FormatArrayPreservedEntries(arr, i, output, depth, cfg) ==
    IF i > Len(arr) THEN output
    ELSE LET entry == arr[i]
             o1 == IF i > 1 /\ entry.value.some THEN Append(output, ",") ELSE output
             o2 == o1 \o GetStr(entry.space_bf_val)
             o3 == IF entry.value.some THEN FormatValue(entry.value.v, o2, depth + 1, cfg)
                   ELSE o2
         IN  FormatArrayPreservedEntries(arr, i + 1, o3 \o GetStr(entry.space_af_val),
                                         depth, cfg)

FormatArrayPreserved(arr, output, depth, cfg) ==
    IF arr = <<>> THEN output \o <<"[", "]">>
    ELSE Append(FormatArrayPreservedEntries(arr, 1, Append(output, "["), depth, cfg), "]")

\* the loop of format_object over the retained (and sorted) entries
FormatObjectEntries(entries, i, output, depth, cfg) ==
    IF i > Len(entries) THEN output
    ELSE LET entry == entries[i]
             o1 == IF i > 1 THEN Separator(output, cfg) ELSE output
             o2 == IF CfgBeautify(cfg) THEN WriteIndent(o1, depth + 1, cfg) ELSE o1
             o3 == (o2 \o <<DQ>> \o GetStr(entry.key) \o <<DQ, ":">>)
             o4 == IF CfgSpaceBetween(cfg) \/ CfgBeautify(cfg) THEN Append(o3, " ") ELSE o3
         IN  FormatObjectEntries(entries, i + 1,
                                 FormatValue(entry.value.v, o4, depth + 1, cfg), depth, cfg)

\* a variant of format_object that sorts whatever sort_keys says
FormatObjectAlwaysSorted(obj, output, depth, cfg) ==
    LET entries == SortByKey(RetainValues(obj))
    IN  IF entries = <<>> THEN output \o <<"{", "}">>
        ELSE Append(Closing(FormatObjectEntries(entries, 1,
                                                Opening(Append(output, "{"), cfg),
                                                depth, cfg),
                            depth, cfg), "}")

FormatObject(obj, output, depth, cfg) ==
    LET retained == RetainValues(obj)
        entries == IF cfg.sort_keys THEN SortByKey(retained) ELSE retained
    IN  IF retained = <<>> THEN output \o <<"{", "}">>
        ELSE Append(Closing(FormatObjectEntries(entries, 1,
                                                Opening(Append(output, "{"), cfg),
                                                depth, cfg),
                            depth, cfg), "}")

\* sort_by on get_key() strings (sort_by is stable; the entries themselves
\* are not changed)
RECURSIVE InsertByKeyText(_, _)
InsertByKeyText(sorted, e) ==
    IF sorted = <<>> THEN <<e>>
    ELSE IF StrLess(GetStr(e.key), GetStr(sorted[Len(sorted)].key))
         THEN Append(InsertByKeyText(SubSeq(sorted, 1, Len(sorted) - 1), e),
                     sorted[Len(sorted)])
         ELSE Append(sorted, e)

RECURSIVE SortByKeyText(_)
SortByKeyText(entries) ==
    IF entries = <<>> THEN <<>>
    ELSE InsertByKeyText(SortByKeyText(SubSeq(entries, 1, Len(entries) - 1)),
                         entries[Len(entries)])

CleanMiddleSpacesAndSort(obj, cfg) ==
    LET retained == RetainValues(obj)
        cleaned == IF cfg.sort_keys THEN SortByKeyText(retained) ELSE retained
        withFirst == IF obj # <<>> /\ ~obj[1].value.some THEN <<obj[1]>> \o cleaned
                     ELSE cleaned
    IN  IF Len(obj) > 1 /\ ~obj[Len(obj)].value.some THEN Append(withFirst, obj[Len(obj)])
        ELSE withFirst

FormatObjectPreservedEntries(entries, i, output, depth, cfg) ==
    IF i > Len(entries) THEN output
    ELSE LET entry == entries[i]
         IN  IF ~entry.value.some
             THEN FormatObjectPreservedEntries(entries, i + 1,
                      output \o GetStr(entry.space_bf_key) \o GetStr(entry.space_af_key),
                      depth, cfg)
             ELSE LET o1 == output \o GetStr(entry.space_bf_key) \o <<DQ>>
                              \o GetStr(entry.key) \o <<DQ>> \o GetStr(entry.space_af_key)
                              \o <<":">> \o GetStr(entry.space_bf_val)
                      o2 == FormatValue(entry.value.v, o1, depth + 1, cfg)
                      last_space == GetStr(entry.space_af_val)
                      o3 == IF \E k \in 1..Len(last_space) : last_space[k] = LF
                            THEN Append(o2, ",") \o last_space
                            ELSE Append(o2 \o last_space, ",")
                  IN  FormatObjectPreservedEntries(entries, i + 1, o3, depth, cfg)

\* the bytes of the characters text[k..Len(text)] in UTF-8
RECURSIVE BytesFrom(_, _)
BytesFrom(text, k) == IF k > Len(text) THEN 0 ELSE LenUtf8(text[k]) + BytesFrom(text, k + 1)

\* a text that holds PANIC stands for a panic of the thread: what was written
\* is lost
PANIC == "<panic>"

Panicked(output) == \E k \in 1..Len(output) : output[k] = PANIC

\* when the last character that is not whitespace is a comma, with i
\* characters behind it: output.remove(output.len() - i - 1), the byte that
\* has i + 1 bytes from itself to the end. With one byte per character
\* behind the comma it is the comma; otherwise the character that starts at
\* that byte is removed, and String::remove panics when none does
StripTrailingComma(output) ==
    LET idx == {k \in 1..Len(output) : ~IsWhitespace(output[k])}
        last == CHOOSE k \in idx : \A j \in idx : j <= k
        RemoveChar(k) == SubSeq(output, 1, k - 1) \o SubSeq(output, k + 1, Len(output))
        Remove(starts) ==
            IF starts = {} THEN <<PANIC>> ELSE RemoveChar(CHOOSE k \in starts : TRUE)
        RemoveBehind(from, i) ==
            Remove({k \in from..Len(output) : BytesFrom(output, k) = i + 1})
    IN  IF Panicked(output) THEN <<PANIC>>
        ELSE IF idx # {} /\ output[last] = ","
             THEN RemoveBehind(last, Len(output) - last)
             ELSE output

FormatObjectPreserved(obj, output, depth, cfg) ==
    LET entries == CleanMiddleSpacesAndSort(obj, cfg)
    IN  IF entries = <<>> THEN output \o <<"{", "}">>
        ELSE Append(StripTrailingComma(
                        FormatObjectPreservedEntries(entries, 1, Append(output, "{"),
                                                     depth, cfg)), "}")

FormatValue(value, output, depth, cfg) ==
    CASE value.type = "Null" -> output \o <<"n", "u", "l", "l">>
      [] value.type = "Boolean" ->
            output \o (IF value.b THEN <<"t", "r", "u", "e">> ELSE <<"f", "a", "l", "s", "e">>)
      [] value.type = "Number" -> output \o value.text
      [] value.type = "String" -> output \o <<DQ>> \o value.text \o <<DQ>>
      [] value.type = "Array" ->
            IF CfgPreserve(cfg) THEN FormatArrayPreserved(value.entries, output, depth, cfg)
            ELSE FormatArray(value.entries, output, depth, cfg)
      [] value.type = "Object" ->
            IF CfgPreserve(cfg) THEN FormatObjectPreserved(value.entries, output, depth, cfg)
            ELSE FormatObject(value.entries, output, depth, cfg)
      [] value.type = "Space" -> output \o value.text

\* Formatter::format: the text, or <<PANIC>>
Format(value, cfg) ==
    LET Written(output) == IF Panicked(output) THEN <<PANIC>> ELSE output
    IN  Written(FormatValue(value, <<>>, 0, cfg))

(***************************************************************************)
(* JsonParser::parse and the entry points of JsonFixer                     *)
(***************************************************************************)
Ok(text) == [ok |-> TRUE, text |-> text, err |-> NoError]

Err(err) == [ok |-> FALSE, text |-> <<>>, err |-> err]

\* fix() does not return: the thread panicked
Panic == [ok |-> FALSE, text |-> <<PANIC>>, err |-> NoError]

\* the loop after the value: whitespace is consumed, any other token is fatal
RECURSIVE TrailingLoop(_, _, _)
TrailingLoop(s, p, output) ==
    LET Again(a) == IF a.ok THEN TrailingLoop(s, a.p, output) ELSE Err(a.err)
    IN  CASE p.cur.type = "Whitespace" -> Again(ParserAdvance(s, p))
          [] p.cur.type = "None" -> Ok(output)
          [] OTHER -> Err(SyntaxError("UnexpectedToken", <<>>, p.cur.pos))

\* parse(): leading whitespace, the value, an unconditional advance()?, the
\* formatted output, then the trailing loop
Parse(s, p, cfg) ==
    LET Formatted(a, output) ==
            IF Panicked(output) THEN Panic ELSE TrailingLoop(s, a.p, output)
        Finish(v, a) == IF ~a.ok THEN Err(a.err) ELSE Formatted(a, Format(v.val, cfg))
        AfterValue(v) == IF ~v.ok THEN Err(v.err) ELSE Finish(v, ParserAdvance(s, v.p))
        AfterSpaces(w) == IF ~w.ok THEN Err(w.err) ELSE AfterValue(ParseValue(s, w.p))
    IN  AfterSpaces(ConsumeSpaces(s, p))

FixWithConfig(s, cfg) == Parse(s, ParserNew(s), cfg)

Fix(s) == FixWithConfig(s, DefaultConfig)

FixWithSpaceBetween(s) ==
    FixWithConfig(s, [DefaultConfig EXCEPT !.space_between = TRUE, !.beautify = FALSE,
                                           !.preserve = FALSE])

FixPretty(s) ==
    FixWithConfig(s, [DefaultConfig EXCEPT !.beautify = TRUE, !.preserve = FALSE,
                                           !.space_between = FALSE])

(***************************************************************************)
(* The calls                                                               *)
(***************************************************************************)
NoResult == [ok |-> FALSE, text |-> <<>>, err |-> NoError]

\* a call followed turn by turn: the parser, the containers being parsed
\* (innermost first), where the call stands, and the error it returned
Run(p, stack, status, err) == [p |-> p, stack |-> stack, status |-> status, err |-> err]

NoRun == Run([tz |-> TokenizerNew, cur |-> NoneToken], <<>>, "new", NoError)

\* JsonFixer::fix_with_config(input, config)
CallFix ==
    /\ pc = "ready"
    /\ result' = FixWithConfig(input, config)
    /\ pc' = "fixed"
    /\ UNCHANGED <<input, expect, config, first, run>>

\* the Ok text of the first call is handed to fix_with_config again
CallFixAgain ==
    /\ pc = "fixed"
    /\ result.ok
    /\ first' = result
    /\ result' = FixWithConfig(result.text, config)
    /\ pc' = "refixed"
    /\ UNCHANGED <<input, expect, config, run>>

Next == CallFix \/ CallFixAgain

\* the state before the call, for a drawn (text, expect) and configuration
Start(text, exp, cfg) ==
    /\ input = text
    /\ expect = exp
    /\ config = cfg
    /\ result = NoResult
    /\ first = NoResult
    /\ run = NoRun
    /\ pc = "ready"

(***************************************************************************)
(* Input families                                                          *)
(***************************************************************************)
RECURSIVE Flatten(_)
Flatten(parts) == IF parts = <<>> THEN <<>> ELSE Head(parts) \o Flatten(Tail(parts))

\* the sequences over S of length lo..hi
SeqsOf(S, lo, hi) == UNION {[1..n -> S] : n \in lo..hi}

\* document trees: a scalar, or a container of kids
Tree(ty, kids) == [type |-> ty, kids |-> kids]

MaxDepth == 2

MaxWidth == 2

RECURSIVE Trees(_, _, _)
Trees(scalars, d, w) ==
    LET leaves == {Tree(ty, <<>>) : ty \in scalars \cup {"arr", "obj"}}
    IN  IF d = 0 THEN leaves
        ELSE leaves \cup {Tree(ty, ks) : ty \in {"arr", "obj"},
                                         ks \in SeqsOf(Trees(scalars, d - 1, w), 1, w)}

KeyNames == <<"a", "b", "c", "d">>

\* the text of a tree: lead after the opener, sep between two entries,
\* trail before the closer; the k-th key of an object is KeyNames[k]
RECURSIVE Render(_, _, _, _)
RECURSIVE RenderKids(_, _, _, _, _)
Render(t, lead, sep, trail) ==
    CASE t.type = "num" -> <<"1">>
      [] t.type = "str" -> <<DQ, "s", DQ>>
      [] t.type = "arr" -> <<"[">> \o lead \o RenderKids(t, 1, lead, sep, trail)
                                   \o (IF t.kids = <<>> THEN <<>> ELSE trail) \o <<"]">>
      [] t.type = "obj" -> <<"{">> \o lead \o RenderKids(t, 1, lead, sep, trail)
                                   \o (IF t.kids = <<>> THEN <<>> ELSE trail) \o <<"}">>

RenderKids(t, k, lead, sep, trail) ==
    IF k > Len(t.kids) THEN <<>>
    ELSE (IF k > 1 THEN sep ELSE <<>>)
         \o (IF t.type = "obj" THEN <<DQ, KeyNames[k], DQ, ":">> ELSE <<>>)
         \o Render(t.kids[k], lead, sep, trail)
         \o RenderKids(t, k + 1, lead, sep, trail)

\* compact strict JSON
Compact(t) == Render(t, <<>>, <<",">>, <<>>)

(***************************************************************************)
(* Strict JSON (RFC 8259), the yardstick the properties are stated with:   *)
(* a recognizer over a text, each ...End giving the index after the        *)
(* construct that starts at i, or 0 when there is none                     *)
(***************************************************************************)
At(t, i) == IF i >= 1 /\ i <= Len(t) THEN t[i] ELSE ""

RECURSIVE SkipWs(_, _)
SkipWs(t, i) == IF At(t, i) \in {" ", LF, TAB, CR} THEN SkipWs(t, i + 1) ELSE i

RECURSIVE DigitsEnd(_, _)
DigitsEnd(t, i) == IF IsDigit(At(t, i)) THEN DigitsEnd(t, i + 1) ELSE i

\* one or more digits from i
Digits1End(t, i) == IF i >= 1 /\ IsDigit(At(t, i)) THEN DigitsEnd(t, i) ELSE 0

\* number = [ "-" ] ( "0" / digit1-9 *DIGIT ) [ "." 1*DIGIT ] [ ("e"/"E") ["+"/"-"] 1*DIGIT ]
JsonNumberEnd(t, i) ==
    LET ExpPart(i3) ==
            IF i3 = 0 THEN 0
            ELSE IF At(t, i3) \in {"e", "E"}
            THEN Digits1End(t, IF At(t, i3 + 1) \in {"+", "-"} THEN i3 + 2 ELSE i3 + 1)
            ELSE i3
        FracPart(i2) ==
            ExpPart(IF i2 = 0 THEN 0
                ELSE IF At(t, i2) = "." THEN Digits1End(t, i2 + 1) ELSE i2)
        IntPart(i1) == FracPart(IF At(t, i1) = "0" THEN i1 + 1 ELSE Digits1End(t, i1))
    IN  IntPart(IF At(t, i) = "-" THEN i + 1 ELSE i)

IsJsonNumber(n) == n # <<>> /\ JsonNumberEnd(n, 1) = Len(n) + 1

\* the body of a string from j up to and including the closing quote
RECURSIVE JsonStringBodyEnd(_, _)
JsonStringBodyEnd(t, j) ==
    CASE j > Len(t) -> 0
      [] t[j] = DQ -> j + 1
      [] t[j] = BSL ->
            IF At(t, j + 1) \in {DQ, BSL, "/", "b", "f", "n", "r", "t"}
            THEN JsonStringBodyEnd(t, j + 2)
            ELSE IF At(t, j + 1) = "u"
                    /\ \A k \in 2..5 : At(t, j + k) # "" /\ HexDigitValue(At(t, j + k)) >= 0
            THEN JsonStringBodyEnd(t, j + 6)
            ELSE 0
      [] t[j] \in {LF, TAB, CR, BS, FF} -> 0
      [] OTHER -> JsonStringBodyEnd(t, j + 1)

StartsWith(t, i, word) ==
    i + Len(word) - 1 <= Len(t) /\ SubSeq(t, i, i + Len(word) - 1) = word

RECURSIVE JsonValueEnd(_, _)
RECURSIVE JsonElementsEnd(_, _)
RECURSIVE JsonMembersEnd(_, _)

\* value ws ( "," ws value ws )* "]", the first value starting at i
JsonElementsEnd(t, i) ==
    LET Sep(j) ==
            CASE At(t, j) = "," -> JsonElementsEnd(t, SkipWs(t, j + 1))
              [] At(t, j) = "]" -> j + 1
              [] OTHER -> 0
        After(e) == IF e = 0 THEN 0 ELSE Sep(SkipWs(t, e))
    IN  After(JsonValueEnd(t, i))

\* string ws ":" ws value ws ( "," ws member ws )* "}", the first key starting at i
JsonMembersEnd(t, i) ==
    LET Sep(j) ==
            CASE At(t, j) = "," -> JsonMembersEnd(t, SkipWs(t, j + 1))
              [] At(t, j) = "}" -> j + 1
              [] OTHER -> 0
        AfterValue(e) == IF e = 0 THEN 0 ELSE Sep(SkipWs(t, e))
        Colon(j) == IF At(t, j) = ":" THEN AfterValue(JsonValueEnd(t, SkipWs(t, j + 1))) ELSE 0
        AfterKey(e) == IF e = 0 THEN 0 ELSE Colon(SkipWs(t, e))
    IN  IF At(t, i) = DQ THEN AfterKey(JsonStringBodyEnd(t, i + 1)) ELSE 0

JsonValueEnd(t, i) ==
    LET Array(j) == IF At(t, j) = "]" THEN j + 1 ELSE JsonElementsEnd(t, j)
        Object(j) == IF At(t, j) = "}" THEN j + 1 ELSE JsonMembersEnd(t, j)
    IN  CASE At(t, i) = DQ -> JsonStringBodyEnd(t, i + 1)
          [] At(t, i) = "[" -> Array(SkipWs(t, i + 1))
          [] At(t, i) = "{" -> Object(SkipWs(t, i + 1))
          [] At(t, i) = "-" \/ IsDigit(At(t, i)) -> JsonNumberEnd(t, i)
          [] StartsWith(t, i, <<"t", "r", "u", "e">>) -> i + 4
          [] StartsWith(t, i, <<"f", "a", "l", "s", "e">>) -> i + 5
          [] StartsWith(t, i, <<"n", "u", "l", "l">>) -> i + 4
          [] OTHER -> 0

\* JSON-text = ws value ws
IsStrictJson(t) ==
    LET End(e) == e # 0 /\ SkipWs(t, e) = Len(t) + 1
    IN  End(JsonValueEnd(t, SkipWs(t, 1)))

(***************************************************************************)
(* Spec: any short text of lexemes, under each mode of the formatter       *)
(***************************************************************************)
MaxLexemes == 4

\* '"a":' is one lexeme, so that an object with a member fits in MaxLexemes
Lexemes ==
    {<<"[">>, <<"]">>, <<"{">>, <<"}">>, <<",">>, <<" ">>, <<"1">>,
     <<DQ, "a", DQ>>, <<DQ, "a", DQ, ":">>}

\* texts whose scalars are written in the forms the tokenizer rewrites or lets through
LenientScalars ==
    {<<DQ, BSL, BSL, DQ>>, <<DQ, BSL, "n", DQ>>, <<DQ, BSL, "t", DQ>>, <<SQ, DQ, SQ>>,
     <<"0", "1">>, <<"-", ".", "5">>, <<"1", ".", "e", "5">>, <<"+", "1">>, <<".", "5">>,
     <<"1", ".">>, <<"t", "r", "u", "e">>, <<"n", "u", "l", "l">>}

\* the configuration of each mode: compact, preserve, space_between, beautify
Configs ==
    {DefaultConfig,
     [DefaultConfig EXCEPT !.preserve = TRUE],
     [DefaultConfig EXCEPT !.space_between = TRUE],
     [DefaultConfig EXCEPT !.beautify = TRUE, !.indent_size = 2]}

Init ==
    \E x \in {Flatten(ls) : ls \in SeqsOf(Lexemes, 1, MaxLexemes)} \cup LenientScalars :
        \E cfg \in Configs : Start(x, <<>>, cfg)

Spec == Init /\ [][Next]_vars

\* C1: whenever fix_with_config returns Ok(s), under any configuration, s is
\* a strict JSON text (balanced containers, commas only between elements,
\* double-quoted strings without raw control characters or dangling
\* backslashes, numbers of the JSON grammar).
C1_OutputIsStrictJson ==
    (pc \in {"fixed", "refixed"} /\ result.ok) => IsStrictJson(result.text)

(***************************************************************************)
(* SpecStrict: inputs that are strict JSON already (expect = input)        *)
(***************************************************************************)
CompactDocs == {Compact(t) : t \in Trees({"num", "str"}, MaxDepth, MaxWidth)}

InitStrict == \E x \in CompactDocs : Start(x, x, DefaultConfig)

SpecStrict == InitStrict /\ [][Next]_vars

\* C2: a compact strict JSON text (no whitespace, double-quoted keys, no
\* escape sequences, canonical numbers), nested in any combination and to
\* any depth, is accepted by fix and returned unchanged: fix(x) = Ok(x).
C2_CompactStrictUnchanged == pc = "fixed" => result = Ok(input)

(***************************************************************************)
(* SpecEscapes: strict JSON whose strings are written with escape          *)
(* sequences, alone, in an array and as a member (expect = input)          *)
(***************************************************************************)
MaxEscapes == 2

EscapeLexemes == {<<BSL, BSL>>, <<BSL, "n">>, <<BSL, DQ>>, <<BSL, "/">>, <<"a">>}

EscapedStrings ==
    {<<DQ>> \o Flatten(ls) \o <<DQ>> : ls \in SeqsOf(EscapeLexemes, 1, MaxEscapes)}

EscapedDocs ==
    EscapedStrings
    \cup {<<"[">> \o str \o <<"]">> : str \in EscapedStrings}
    \cup {<<"{", DQ, "a", DQ, ":">> \o str \o <<"}">> : str \in EscapedStrings}

InitEscapes == \E x \in EscapedDocs : Start(x, x, DefaultConfig)

SpecEscapes == InitEscapes /\ [][Next]_vars

\* C3: on strict JSON input (strings with escape sequences such as \\ or \n
\* included) fix succeeds, and fixing its output again gives the same
\* output: fix(fix(x)) = fix(x).
C3_Idempotent ==
    /\ pc = "fixed" => result.ok
    /\ pc = "refixed" => result = first

(***************************************************************************)
(* SpecCommas: compact documents with runs of extra commas                 *)
(* (expect = the document without the extra commas)                        *)
(***************************************************************************)
MaxCommas == 2

Commas(k) == [j \in 1..k |-> ","]

\* at least one comma is extra; the documents with none are those of SpecStrict
InitCommas ==
    \E t \in Trees({"num"}, MaxDepth, MaxWidth) :
        \E lead \in 0..MaxCommas, between \in 1..MaxCommas, trail \in 0..MaxCommas :
            /\ lead + between + trail > 1
            /\ Start(Render(t, Commas(lead), Commas(between), Commas(trail)),
                  Compact(t), DefaultConfig)

SpecCommas == InitCommas /\ [][Next]_vars

\* C4: under the default configuration and without whitespace, a run of one
\* or more commas between two entries is one separator, and a run of commas
\* after the opening or before the closing bracket makes no entry: the
\* result is the document with single separators.
C4_ExtraCommasAbsorbed == pc = "fixed" => result = Ok(expect)

(***************************************************************************)
(* SpecMissing: documents whose entries are separated by whitespace or by  *)
(* nothing (expect = the same document with the commas present)            *)
(***************************************************************************)
InitMissing ==
    \E t \in Trees({"str"}, MaxDepth, MaxWidth) :
        \E sep \in {<<>>, <<" ">>} : Start(Render(t, <<>>, sep, <<>>), Compact(t), DefaultConfig)

SpecMissing == InitMissing /\ [][Next]_vars

\* C5: two adjacent entries with no comma between them are two entries,
\* whatever the first entry's value is (scalar, array or object): when the
\* input with the comma present is fixed to y, so is the input without it.
C5_MissingCommaRecovered ==
    LET Same(with_comma) == with_comma.ok => result = with_comma
    IN  pc = "fixed" => Same(FixWithConfig(expect, config))

(***************************************************************************)
(* SpecKeys: one-member objects over the ways a key can be written         *)
(* (expect = the object with the key in double quotes)                     *)
(***************************************************************************)
IdentifierKeys ==
    {<<"a">>, <<"_">>, <<"A", "b">>, <<"k", "1">>, <<"_", "a", "_", "1">>,
     <<"t", "r", "u", "e">>, <<"f", "a", "l", "s", "e">>, <<"n", "u", "l", "l">>,
     <<"T", "r", "u", "e">>, <<"n", "u", "l">>}

QuotedKeyBodies == {<<"a">>, <<"a", " ", "b">>, <<"1">>, <<"t", "r", "u", "e">>}

ScalarValues ==
    {<<"1">>, <<"-", "1", ".", "5">>, <<"1", "e", "5">>, <<DQ, "s", DQ>>,
     <<"t", "r", "u", "e">>, <<"f", "a", "l", "s", "e">>, <<"n", "u", "l", "l">>}

Member(k, v) == <<"{">> \o k \o <<":">> \o v \o <<"}">>

InitKeys ==
    \E v \in ScalarValues :
        \/ \E k \in IdentifierKeys :
              Start(Member(k, v), Member(<<DQ>> \o k \o <<DQ>>, v), DefaultConfig)
        \/ \E b \in QuotedKeyBodies, q \in {SQ, DQ} :
              Start(Member(<<q>> \o b \o <<q>>, v), Member(<<DQ>> \o b \o <<DQ>>, v),
                    DefaultConfig)

SpecKeys == InitKeys /\ [][Next]_vars

\* C6: for an identifier-shaped key (the words true, false and null
\* included) or a quoted key k and a scalar value v, fix("{k:v}") is Ok with
\* the key in double quotes and the value unchanged, joined without spaces.
C6_KeyNormalized == pc = "fixed" => result = Ok(expect)

(***************************************************************************)
(* SpecNumbers: every short text a number token can start with, alone, in  *)
(* an array and as a member (expect = the literal)                         *)
(***************************************************************************)
MaxNumLen == 5

NumberChars == {"0", "1", ".", "e", "-", "+"}

\* the literals next_token hands to tokenize_number
NumberLiterals == {n \in SeqsOf(NumberChars, 1, MaxNumLen) : n[1] # "e"}

NumberContexts == {"alone", "element", "member"}

InContext(ctx, lit) ==
    CASE ctx = "alone" -> lit
      [] ctx = "element" -> <<"[">> \o lit \o <<"]">>
      [] ctx = "member" -> <<"{", DQ, "a", DQ, ":">> \o lit \o <<"}">>

InitNumbers ==
    \E lit \in NumberLiterals, ctx \in NumberContexts :
        Start(InContext(ctx, lit), lit, DefaultConfig)

SpecNumbers == InitNumbers /\ [][Next]_vars

HasDot(str) == \E k \in 1..Len(str) : str[k] = "."

\* the literals the round trip is stated for
Normalizable(lit) ==
    \/ IsJsonNumber(lit)
    \/ lit[1] = "+" /\ IsJsonNumber(Tail(lit)) /\ lit[2] # "-"
    \/ lit[1] = "." /\ IsJsonNumber(<<"0">> \o lit)
    \/ lit[Len(lit)] = "." /\ IsJsonNumber(Front(lit)) /\ ~HasDot(Front(lit))

\* and the text each is to be emitted as
Normalized(lit) ==
    CASE IsJsonNumber(lit) -> lit
      [] lit[1] = "+" -> Tail(lit)
      [] lit[1] = "." -> <<"0">> \o lit
      [] OTHER -> Front(lit)

\* C7: a number literal that is valid JSON is emitted with exactly its source
\* text; a leading '+' is dropped, a leading '.' followed by a digit gets
\* '0' prepended, and a single trailing '.' is removed.
C7_NumberRoundTrip ==
    (pc = "fixed" /\ Normalizable(expect)) =>
        \A ctx \in NumberContexts :
            input = InContext(ctx, expect) => result = Ok(InContext(ctx, Normalized(expect)))

\* ".1" inside an array was fixed to "[0.1]"
C7_Witness ==
    /\ pc = "fixed"
    /\ expect = <<".", "1">>
    /\ input = <<"[", ".", "1", "]">>
    /\ result = Ok(<<"[", "0", ".", "1", "]">>)

DotCount(str) == Cardinality({k \in 1..Len(str) : str[k] = "."})

\* C8: a numeric literal whose text holds more than one decimal point, or is
\* not a parseable float text, makes fix fail with InvalidNumber and is
\* never emitted in an Ok result.  Stated for a literal inside an array or
\* an object, where the literal is not the first token of the input.
C8_InvalidNumberRejected ==
    (pc = "fixed" /\ input # expect /\ (DotCount(expect) > 1 \/ ~IsF64Text(expect))) =>
        ~result.ok /\ result.err.kind = "InvalidNumber"

(***************************************************************************)
(* SpecTrailing: one top-level value, then at most one more token, with    *)
(* or without a space between them (expect = the trailing token)           *)
(***************************************************************************)
TopValues ==
    {<<"1">>, <<DQ, "s", DQ>>, <<"n", "u", "l", "l">>, <<"[", "]">>, <<"[", "1", "]">>,
     <<"{", "}">>, <<"{", DQ, "a", DQ, ":", "1", "}">>, <<"[", "[", "]", "]">>}

TrailingTokens ==
    {<<"1">>, <<DQ, "s", DQ>>, <<"t", "r", "u", "e">>, <<"x">>, <<",">>, <<":">>,
     <<"[">>, <<"]">>, <<"{">>, <<"}">>}

\* the two texts written next to each other would be read as one token
Merges(value, token) ==
    \/ IsDigit(value[Len(value)]) /\ IsNumberChar(token[1])
    \/ value[Len(value)] \in LowerLetters /\ (IsAlphanumeric(token[1]) \/ token[1] = "_")

InitTrailing ==
    \E value \in TopValues :
        \/ Start(value, <<>>, DefaultConfig)
        \/ \E token \in TrailingTokens, sep \in {<<>>, <<" ">>} :
              /\ sep = <<>> => ~Merges(value, token)
              /\ Start(value \o sep \o token, token, DefaultConfig)

SpecTrailing == InitTrailing /\ [][Next]_vars

\* C9: after the single top-level value, any token other than whitespace,
\* separated from the value by whitespace or not, makes fix fail with
\* UnexpectedToken; no trailing token is silently discarded.
C9_TrailingTokenRejected ==
    (pc = "fixed" /\ expect # <<>>) => ~result.ok /\ result.err.kind = "UnexpectedToken"

(***************************************************************************)
(* SpecLex: a well-formed beginning, one lexeme, an ending; the lexeme is  *)
(* one the tokenizer rejects or a number (expect = the lexeme)             *)
(***************************************************************************)
Beginnings ==
    {<<>>, <<" ">>, <<"[">>, <<"[", " ">>, <<"[", "1", ",">>, <<"[", "[", "]", ",">>,
     <<"{">>, <<"{", DQ, "a", DQ>>, <<"{", DQ, "a", DQ, ":">>, <<"{", DQ, "a", DQ, ":", " ">>,
     <<"{", DQ, "a", DQ, ":", "1", ",">>}

RejectedLexemes ==
    {<<"@">>, <<"#">>, <<"+">>, <<".">>, <<"+", "x">>, <<DQ, "a", "b">>, <<SQ, "a", "b">>,
     <<DQ, "a", BSL, DQ>>}

Endings == {<<>>, <<"]">>, <<"}">>, <<" ">>, <<LF, "]">>}

InitLex ==
    \E pre \in Beginnings, lexeme \in RejectedLexemes \cup {<<"1">>}, post \in Endings :
        Start(pre \o lexeme \o post, lexeme, DefaultConfig)

SpecLex == InitLex /\ [][Next]_vars

\* the first error next_token meets when the text is tokenized from its
\* start, NoError when it meets none
RECURSIVE FirstLexError(_, _)
FirstLexError(s, tz) ==
    LET Step(r) ==
            IF ~r.ok THEN r.err
            ELSE IF r.tok.type = "None" THEN NoError
            ELSE FirstLexError(s, r.tz)
    IN  Step(NextToken(s, tz))

\* C10: when the tokenizer fails on a token before the parser has failed,
\* fix returns exactly that error, kind and position, also when the failing
\* token is the very first token of the input.
C10_FirstErrorReturned ==
    LET Returned(err) == err # NoError => result = Err(err)
    IN  pc = "fixed" => Returned(FirstLexError(input, TokenizerNew))

(***************************************************************************)
(* SpecTruncated: an object entry that stops after its key or after its    *)
(* colon, in several surroundings, and blank inputs.  expect names where   *)
(* the input stops: "key", "colon", "blank", or "complete" for an entry    *)
(* that is written out in full                                             *)
(***************************************************************************)
EntryBeginnings ==
    {<<"{">>, <<"{", " ">>, <<"[", "{">>, <<"{", DQ, "x", DQ, ":", "{">>,
     <<"{", DQ, "a", DQ, ":", "1", ",">>, <<"{", DQ, "a", DQ, ":", "1", " ">>,
     <<"{", DQ, "a", DQ, ":", "[", "]", ",">>, <<"{", DQ, "a", DQ, ":", "[", "]">>,
     <<"{", DQ, "a", DQ, ":", "{", "}", " ">>}

EntryKeys == {<<DQ, "k", DQ>>, <<"k">>, <<SQ, "k", SQ>>}

AfterKey == {<<>>, <<" ">>, <<LF>>}

AfterColon == {<<":">>, <<":", " ">>, <<" ", ":">>, <<" ", ":", LF>>}

BlankInputs == {<<>>, <<" ">>, <<LF>>, <<" ", TAB, " ">>}

InitTruncated ==
    \/ \E blank \in BlankInputs : Start(blank, "blank", DefaultConfig)
    \/ \E pre \in EntryBeginnings, key \in EntryKeys :
          \/ \E post \in AfterKey : Start(pre \o key \o post, "key", DefaultConfig)
          \/ \E post \in AfterColon : Start(pre \o key \o post, "colon", DefaultConfig)
          \/ Start(pre \o key \o <<":", "1">>, "complete", DefaultConfig)

SpecTruncated == InitTruncated /\ [][Next]_vars

\* C11: an input that ends right after an object key or right after the
\* colon of an entry, with or without whitespace behind it, and an input
\* that is empty or all whitespace, make fix fail with UnexpectedEndOfInput.
C11_TruncatedEntryRejected ==
    (pc = "fixed" /\ expect \in {"key", "colon", "blank"}) =>
        ~result.ok /\ result.err.kind = "UnexpectedEndOfInput"

\* the same, for entries that do not follow a container value without a comma
C11_AfterSeparatedEntry ==
    LET n == Len(input)
        Follows(close) == \E k \in 1..n : input[k] = close /\ k + 1 <= n /\ input[k + 1] # ","
    IN  (pc = "fixed" /\ expect \in {"key", "colon", "blank"}
            /\ ~Follows("]") /\ ~Follows("}")) =>
            ~result.ok /\ result.err.kind = "UnexpectedEndOfInput"

(***************************************************************************)
(* SpecUnclosed: documents that stop inside open containers.  The input is *)
(* a chain of up to MaxOpen containers, each opened inside the one before  *)
(* it and none of them closed, followed by whitespace and/or one comma;    *)
(* expect = the same chain with every container closed                     *)
(***************************************************************************)
MaxOpen == 3

\* an outer container up to the place where the next container opens
OuterOpenings ==
    {[text |-> <<"[">>, close |-> "]"],
     [text |-> <<"[", "1", ",">>, close |-> "]"],
     [text |-> <<"{", DQ, "a", DQ, ":">>, close |-> "}"],
     [text |-> <<"{", DQ, "a", DQ, ":", "1", ",", DQ, "b", DQ, ":">>, close |-> "}"]}

\* the innermost container up to the place where the input stops
InnerOpenings ==
    {[text |-> <<"[">>, close |-> "]", holds |-> FALSE],
     [text |-> <<"[", "1">>, close |-> "]", holds |-> TRUE],
     [text |-> <<"[", "1", ",", "2">>, close |-> "]", holds |-> TRUE],
     [text |-> <<"{">>, close |-> "}", holds |-> FALSE],
     [text |-> <<"{", DQ, "a", DQ, ":", "1">>, close |-> "}", holds |-> TRUE],
     [text |-> <<"{", DQ, "a", DQ, ":", "{", DQ, "b", DQ, ":", "1", "}">>, close |-> "}", holds |-> TRUE]}

StopsAfterValue == {<<",">>, <<",", " ">>, <<" ", ",">>}

StopsAnywhere == {<<>>, <<" ">>, <<LF, " ">>}

Closers(outer, inner) ==
    <<inner.close>> \o [k \in 1..Len(outer) |-> outer[Len(outer) + 1 - k].close]

OpenText(outer, inner) ==
    Flatten([k \in 1..Len(outer) |-> outer[k].text]) \o inner.text

InitUnclosed ==
    \E outer \in SeqsOf(OuterOpenings, 0, MaxOpen - 1), inner \in InnerOpenings :
        \E stop \in StopsAnywhere \cup (IF inner.holds THEN StopsAfterValue ELSE {}) :
            Start(OpenText(outer, inner) \o stop,
                  OpenText(outer, inner) \o Closers(outer, inner), DefaultConfig)

SpecUnclosed == InitUnclosed /\ [][Next]_vars

\* C12: an input that ends inside open containers at an entry boundary
\* (after the opener, after a complete value or after a comma, with optional
\* whitespace) is accepted, and the output is the document with every open
\* container closed.
C12_UnclosedRepaired ==
    pc = "fixed" => result = Ok(expect)

\* the bracket of the innermost container that text t leaves open before
\* position k + 1 (t holds no bracket inside a string)
RECURSIVE InnermostOpen(_, _, _)
InnermostOpen(t, k, closed) ==
    IF k = 0 THEN ""
    ELSE IF t[k] \in {"]", "}"} THEN InnermostOpen(t, k - 1, closed + 1)
    ELSE IF t[k] \in {"[", "{"}
        THEN IF closed = 0 THEN t[k] ELSE InnermostOpen(t, k - 1, closed - 1)
    ELSE InnermostOpen(t, k - 1, closed)

\* the last character of t[1..k] that is not whitespace
RECURSIVE LastMark(_, _)
LastMark(t, k) ==
    IF k = 0 THEN "" ELSE IF IsWhitespace(t[k]) THEN LastMark(t, k - 1) ELSE t[k]

\* the input stops in an array, on whitespace written where an element starts
StopsOnSpaceInArray ==
    /\ IsWhitespace(input[Len(input)])
    /\ LastMark(input, Len(input)) \in {"[", ","}
    /\ InnermostOpen(input, Len(input), 0) = "["

\* the repair of C12 fails exactly for the inputs of StopsOnSpaceInArray,
\* and then with UnexpectedEndOfInput
C12_RepairedUnlessArrayStopsOnSpace ==
    pc = "fixed" =>
        IF StopsOnSpaceInArray
        THEN ~result.ok /\ result.err.kind = "UnexpectedEndOfInput"
        ELSE result = Ok(expect)

(***************************************************************************)
(* SpecKeyPosition: an object written up to a place where a key starts,    *)
(* then one token that is no key, then an ending.  expect = <<the text     *)
(* before the token, the token>>, and <<>> for a control input whose       *)
(* token is a key with its value                                           *)
(***************************************************************************)
KeyPositions ==
    {<<"{">>, <<"{", " ">>, <<"[", "{">>,
     <<"{", DQ, "a", DQ, ":", "1", ",">>, <<"{", DQ, "a", DQ, ":", "1", " ">>,
     <<"{", DQ, "a", DQ, ":", DQ, "s", DQ>>, <<"{", DQ, "a", DQ, ":", "n", "u", "l", "l", ",", " ">>,
     <<"{", DQ, "a", DQ, ":", "[", "]", ",">>, <<"{", DQ, "a", DQ, ":", "[", "1", "]">>,
     <<"{", DQ, "a", DQ, ":", "[", "]", " ">>, <<"{", DQ, "a", DQ, ":", "{", "}">>,
     <<"{", DQ, "a", DQ, ":", "{", "}", ",", " ">>}

NonKeyTokens == {<<"2">>, <<"-", "1">>, <<"[">>, <<"]">>, <<"{">>, <<":">>}

KeyPositionEndings ==
    {<<>>, <<"}">>, <<" ", "}">>, <<":", "1", "}">>, <<",", DQ, "b", DQ, ":", "1", "}">>}

InitKeyPosition ==
    \E pre \in KeyPositions :
        \/ \E token \in NonKeyTokens, post \in KeyPositionEndings :
              Start(pre \o token \o post, <<pre, token>>, DefaultConfig)
        \/ Start(pre \o <<DQ, "k", DQ, ":", "1", "}">>, <<>>, DefaultConfig)

SpecKeyPosition == InitKeyPosition /\ [][Next]_vars

\* C13: inside an object, where a key is expected (after the opening brace,
\* after a complete entry of any value kind, after a comma), a token that
\* is not a quoted string, an identifier, a comma, whitespace or a closing
\* brace makes fix fail with UnexpectedToken; it is never skipped.
C13_NonKeyTokenRejected ==
    (pc = "fixed" /\ expect # <<>>) => ~result.ok /\ result.err.kind = "UnexpectedToken"

\* the token is rejected as C13 states exactly when it does not follow a
\* container value with no comma in between; there it is skipped
C13_SkippedOnlyAfterContainer ==
    LET AfterContainer(pre) == LastMark(pre, Len(pre)) \in {"]", "}"}
    IN  (pc = "fixed" /\ expect # <<>>) =>
            IF AfterContainer(expect[1])
            THEN result.ok \/ result.err.kind = "UnexpectedToken"
            ELSE ~result.ok /\ result.err.kind = "UnexpectedToken"

(***************************************************************************)
(* Documents with whitespace: the text of a tree with a gap of whitespace  *)
(* at each place strict JSON allows one inside a container                 *)
(***************************************************************************)
Spacing(lead, af_key, bf_val, af_val, bf_entry, trail, empty) ==
    [lead |-> lead, af_key |-> af_key, bf_val |-> bf_val, af_val |-> af_val,
     bf_entry |-> bf_entry, trail |-> trail, empty |-> empty]

\* lead after the opener, af_key and bf_val around the colon, af_val after
\* each value, bf_entry after each comma, trail before the closer of a
\* container with entries, empty inside an empty container; the leaf "esc"
\* is a string written with the escape sequence of a line feed
RECURSIVE RenderSpaced(_, _)
RECURSIVE RenderSpacedKids(_, _, _)
RenderSpaced(t, sp) ==
    LET Body == IF t.kids = <<>> THEN sp.empty
                ELSE sp.lead \o RenderSpacedKids(t, 1, sp) \o sp.trail
    IN  CASE t.type = "num" -> <<"1">>
          [] t.type = "str" -> <<DQ, "s", DQ>>
          [] t.type = "esc" -> <<DQ, BSL, "n", DQ>>
          [] t.type = "arr" -> <<"[">> \o Body \o <<"]">>
          [] t.type = "obj" -> <<"{">> \o Body \o <<"}">>

RenderSpacedKids(t, k, sp) ==
    IF k > Len(t.kids) THEN <<>>
    ELSE (IF k > 1 THEN <<",">> \o sp.bf_entry ELSE <<>>)
         \o (IF t.type = "obj" THEN <<DQ, KeyNames[k], DQ>> \o sp.af_key \o <<":">> \o sp.bf_val
             ELSE <<>>)
         \o RenderSpaced(t.kids[k], sp) \o sp.af_val
         \o RenderSpacedKids(t, k + 1, sp)

Gaps == {<<>>, <<" ">>}

LineGaps == {<<>>, <<" ">>, <<LF>>, <<LF, " ">>}

Spacings ==
    {Spacing(lead, af_key, bf_val, af_val, bf_entry, <<>>, empty) :
        lead \in Gaps, af_key \in Gaps, bf_val \in Gaps, af_val \in LineGaps,
        bf_entry \in Gaps, empty \in Gaps}

PreserveConfig == [DefaultConfig EXCEPT !.preserve = TRUE]

\* containers of up to two entries, each a scalar or a container of scalars
SpacedTrees ==
    LET scalars == {Tree("num", <<>>), Tree("str", <<>>)}
        flat == {Tree(ty, ks) : ty \in {"arr", "obj"}, ks \in SeqsOf({Tree("num", <<>>)}, 0, 2)}
    IN  {Tree(ty, ks) : ty \in {"arr", "obj"}, ks \in SeqsOf(scalars \cup flat, 0, 2)}

(***************************************************************************)
(* SpecPreserve: strict JSON containers with whitespace inside, fixed with *)
(* preserve = TRUE (expect = input)                                        *)
(***************************************************************************)
InitPreserve ==
    \E t \in SpacedTrees, sp \in Spacings :
        Start(RenderSpaced(t, sp), RenderSpaced(t, sp), PreserveConfig)

SpecPreserve == InitPreserve /\ [][Next]_vars

\* C14: with preserve = TRUE and sort_keys = FALSE, a strict JSON container
\* with any whitespace between its tokens is returned unchanged.
C14_PreserveKeepsText ==
    pc = "fixed" => result = Ok(input)

\* the same, for texts that hold no object
C14_PreserveKeepsArrays ==
    (pc = "fixed" /\ \A k \in 1..Len(input) : input[k] # "{") => result = Ok(input)

(***************************************************************************)
(* SpecTrailingComma: a compact strict JSON container with one comma, and  *)
(* whitespace on either side of it, written before its closing bracket;    *)
(* the container stands alone, as the element of an array or as the member *)
(* of an object, and is fixed with preserve = TRUE.  expect = [text: the   *)
(* input without that comma, type: the container's type, before and after: *)
(* the whitespace on the two sides of the comma]                           *)
(***************************************************************************)
Wrappings ==
    {[open |-> <<>>, close |-> <<>>],
     [open |-> <<"[">>, close |-> <<"]">>],
     [open |-> <<"{", DQ, "x", DQ, ":">>, close |-> <<"}">>]}

\* text t without its last character, then mid, then that last character
BeforeCloser(t, mid) == SubSeq(t, 1, Len(t) - 1) \o mid \o <<t[Len(t)]>>

InitTrailingComma ==
    \E t \in {s \in SpacedTrees : s.kids # <<>>}, wrap \in Wrappings :
        \E before \in LineGaps, after \in LineGaps :
            Start(wrap.open \o BeforeCloser(Compact(t), before \o <<",">> \o after) \o wrap.close,
                  [text |-> wrap.open \o BeforeCloser(Compact(t), before \o after) \o wrap.close,
                   type |-> t.type, before |-> before, after |-> after],
                  PreserveConfig)

SpecTrailingComma == InitTrailingComma /\ [][Next]_vars

\* C15: with preserve = TRUE, for an object or array whose only defect is
\* one trailing comma before its closing bracket, with any whitespace
\* before and after that comma, the output is the input with that comma
\* removed and every whitespace character kept in place.
C15_TrailingCommaRemoved ==
    pc = "fixed" => result = Ok(expect.text)

\* the same, for arrays, and for objects with whitespace on at most one
\* side of the comma
C15_RemovedUnlessSpacedObject ==
    (pc = "fixed" /\ (expect.type = "arr" \/ expect.before = <<>> \/ expect.after = <<>>)) =>
        result = Ok(expect.text)

(***************************************************************************)
(* SpecSuppressed: documents with and without whitespace and defects,      *)
(* fixed with preserve = TRUE under every combination of the other         *)
(* switches, indent sizes up to MaxIndent (expect is not used)             *)
(***************************************************************************)
MaxIndent == 2

PreserveConfigs ==
    {Config(TRUE, sb, be, st, sz, sk) :
        sb \in BOOLEAN, be \in BOOLEAN, st \in {"Spaces", "Tabs"}, sz \in 0..MaxIndent,
        sk \in BOOLEAN}

SuppressedSpacings ==
    {Spacing(<<>>, <<>>, <<>>, <<>>, <<>>, <<>>, <<>>),
     Spacing(<<" ">>, <<" ">>, <<" ">>, <<" ">>, <<" ">>, <<>>, <<" ">>),
     Spacing(<<LF, " ">>, <<>>, <<" ">>, <<LF>>, <<" ">>, <<>>, <<>>)}

DefectTexts ==
    {<<"[", "1", " ", "2">>, <<"{", "b", ":", "1", ",", " ", "a", ":", "[", "2", ",", "]", ",", "}">>,
     <<"[", ",", " ", "1", ",", ",", "]">>, <<"{", DQ, "a", DQ, " ", "1", "}">>, <<"@">>,
     <<"[", "1", ".", ".", "]">>, <<" ", "[", "]">>, <<"1">>,
     <<"{", DQ, "a", DQ, ":", "1", "<U+2003>", "}">>,
     <<"{", DQ, "a", DQ, ":", "1", ",", LF, "<U+00A0>", "}">>}

InitSuppressed ==
    \E cfg \in PreserveConfigs :
        \/ \E t \in SpacedTrees, sp \in SuppressedSpacings : Start(RenderSpaced(t, sp), <<>>, cfg)
        \/ \E x \in DefectTexts : Start(x, <<>>, cfg)

SpecSuppressed == InitSuppressed /\ [][Next]_vars

\* C16: with preserve = TRUE the result of fix_with_config does not depend
\* on space_between, beautify, indent_style or indent_size: it is the
\* result under the configuration that has them all at their defaults.
C16_PreserveSuppressesLayout ==
    pc = "fixed" =>
        result = FixWithConfig(input, [config EXCEPT !.space_between = FALSE,
                                                     !.beautify = FALSE,
                                                     !.indent_style = "Spaces",
                                                     !.indent_size = 0])

\* a document with whitespace, fixed with every layout switch set, comes
\* back with its own whitespace
C16_Witness ==
    /\ pc = "fixed"
    /\ config.preserve /\ config.space_between /\ config.beautify
    /\ config.indent_style = "Tabs" /\ config.indent_size = 2
    /\ input = <<"[", " ", "1", " ", ",", " ", "[", " ", "]", " ", "]">>
    /\ result = Ok(input)

(***************************************************************************)
(* SpecPretty: compact containers and two texts with defects, fixed by the *)
(* preset fix_pretty (expect and config are not used)                      *)
(***************************************************************************)
\* JsonFixer::fix_pretty(input)
CallFixPretty ==
    /\ pc = "ready"
    /\ result' = FixPretty(input)
    /\ pc' = "fixed"
    /\ UNCHANGED <<input, expect, config, first, run>>

NextPretty == CallFixPretty

PrettyInputs ==
    {Compact(t) : t \in SpacedTrees}
        \cup {<<"{", "a", ":", "1", ",", "b", ":", "[", "1", ",", "]", ",", "}">>,
              <<"[", "1", " ", "2", ",", "{", "}", "]">>}

InitPretty == \E x \in PrettyInputs : Start(x, <<>>, DefaultConfig)

SpecPretty == InitPretty /\ [][NextPretty]_vars

\* C17: fix_pretty renders as fix_with_config does with beautify = TRUE,
\* indent_style = Spaces and indent_size = 4: every pair and element at
\* nesting depth d starts its own line with 4 * (d + 1) spaces.
C17_PrettyIndentsByFour ==
    pc = "fixed" => result = FixWithConfig(input, Config(FALSE, FALSE, TRUE, "Spaces", 4, FALSE))

(***************************************************************************)
(* Layout families: containers of one or two entries, each a scalar or a   *)
(* container of up to two numbers, written in several accepted ways        *)
(***************************************************************************)
LayoutTrees ==
    LET scalars == {Tree("num", <<>>), Tree("str", <<>>), Tree("esc", <<>>)}
        flat == {Tree(ty, ks) : ty \in {"arr", "obj"}, ks \in SeqsOf({Tree("num", <<>>)}, 0, 2)}
    IN  {Tree(ty, ks) : ty \in {"arr", "obj"}, ks \in SeqsOf(scalars \cup flat, 1, 2)}

\* compact; with whitespace at every gap; with a trailing comma; with
\* whitespace and a comma after the opener
Writings ==
    {Spacing(<<>>, <<>>, <<>>, <<>>, <<>>, <<>>, <<>>),
     Spacing(<<" ">>, <<" ">>, <<" ">>, <<" ">>, <<LF>>, <<>>, <<>>),
     Spacing(<<>>, <<>>, <<>>, <<>>, <<>>, <<",">>, <<>>),
     Spacing(<<" ", ",">>, <<>>, <<>>, <<>>, <<>>, <<>>, <<>>)}

\* in text t some opening square bracket is followed by whitespace and a comma
CommaLeadsArray(t) ==
    \E k \in 1..Len(t) : t[k] = "[" /\ At(t, SkipWs(t, k + 1)) = "," /\ SkipWs(t, k + 1) > k + 1

HasEscape(t) == \E k \in 1..Len(t) : t[k] = BSL

(***************************************************************************)
(* SpecSpaceBetween: the layout family fixed with space_between = TRUE     *)
(* (expect = the tree written opener, space, entries separated by comma    *)
(* and space, space, closer, with one space after each colon)              *)
(***************************************************************************)
SpaceBetweenLayout == Spacing(<<" ">>, <<>>, <<" ">>, <<>>, <<" ">>, <<" ">>, <<>>)

InitSpaceBetween ==
    \E t \in LayoutTrees, sp \in Writings :
        Start(RenderSpaced(t, sp), RenderSpaced(t, SpaceBetweenLayout),
              [DefaultConfig EXCEPT !.space_between = TRUE])

SpecSpaceBetween == InitSpaceBetween /\ [][Next]_vars

\* C18: with space_between = TRUE, preserve = FALSE and beautify = FALSE,
\* the output for an accepted input is on a single line, and every
\* container that holds a value is written opener, one space, the entries
\* separated by a comma and one space, one space, closer, with exactly one
\* space after each colon.
C18_SpaceBetweenLayout ==
    (pc = "fixed" /\ result.ok) =>
        /\ result.text = expect
        /\ \A k \in 1..Len(result.text) : result.text[k] # LF

\* the same, for inputs without an escape sequence and without whitespace
\* and a comma after an opening square bracket
C18_LayoutOfPlainInputs ==
    (pc = "fixed" /\ result.ok /\ ~HasEscape(input) /\ ~CommaLeadsArray(input)) =>
        /\ result.text = expect
        /\ \A k \in 1..Len(result.text) : result.text[k] # LF

(***************************************************************************)
(* SpecEmpty: an array or object that holds no value, with up to MaxFill   *)
(* whitespace characters and commas between its brackets, alone, as the    *)
(* element of an array or as the member of an object, fixed in the three   *)
(* non-preserve modes.  expect = [text: the input with nothing between     *)
(* those brackets, fill: what the input has between them, type: the type   *)
(* of the container, alone: it is the whole document]                      *)
(***************************************************************************)
MaxFill == 2

Fills == SeqsOf({" ", LF, ","}, 0, MaxFill)

NonPreserveConfigs ==
    {DefaultConfig,
     [DefaultConfig EXCEPT !.space_between = TRUE],
     [DefaultConfig EXCEPT !.beautify = TRUE, !.indent_size = 2]}

Brackets == {[type |-> "arr", open |-> "[", close |-> "]"],
             [type |-> "obj", open |-> "{", close |-> "}"]}

InitEmpty ==
    \E br \in Brackets, fill \in Fills, wrap \in Wrappings, cfg \in NonPreserveConfigs :
        Start(wrap.open \o <<br.open>> \o fill \o <<br.close>> \o wrap.close,
              [text |-> wrap.open \o <<br.open, br.close>> \o wrap.close,
               fill |-> fill, type |-> br.type, alone |-> wrap.open = <<>>],
              cfg)

SpecEmpty == InitEmpty /\ [][Next]_vars

\* C19: in every non-preserve mode an array or object that holds no value,
\* also one with only whitespace and/or commas between its brackets, is
\* rendered exactly as the two brackets: alone it gives [] or {}, and
\* inside a document it gives what the document gives with the container
\* written as [] or {}.
C19_EmptyRenderedBare ==
    pc = "fixed" =>
        /\ result = FixWithConfig(expect.text, config)
        /\ expect.alone => result = Ok(expect.text)

\* the same, for objects, and for arrays with no whitespace between the
\* brackets
C19_BareUnlessArrayWithSpace ==
    (pc = "fixed" /\ (expect.type = "obj"
                         \/ \A k \in 1..Len(expect.fill) : ~IsWhitespace(expect.fill[k]))) =>
        /\ result = FixWithConfig(expect.text, config)
        /\ expect.alone => result = Ok(expect.text)

(***************************************************************************)
(* SpecBeautify: the layout family without escape sequences, fixed with    *)
(* beautify = TRUE, indent_style = Spaces and indent_size = 0..MaxIndent   *)
(* (expect = the tree written one entry per line)                          *)
(***************************************************************************)
\* the tree at nesting depth d with an indentation unit of n spaces: each
\* entry of a container on its own line behind (d + 1) * n spaces, a comma
\* at the end of the line of each entry but the last, one space after each
\* colon, the closer on its own line behind d * n spaces
RECURSIVE RenderPretty(_, _, _)
RECURSIVE RenderPrettyKids(_, _, _, _)
RenderPretty(t, n, d) ==
    LET Body == IF t.kids = <<>> THEN <<>>
                ELSE RenderPrettyKids(t, 1, n, d) \o <<LF>> \o Repeat(<<" ">>, d * n)
    IN  CASE t.type = "num" -> <<"1">>
          [] t.type = "str" -> <<DQ, "s", DQ>>
          [] t.type = "arr" -> <<"[">> \o Body \o <<"]">>
          [] t.type = "obj" -> <<"{">> \o Body \o <<"}">>

RenderPrettyKids(t, k, n, d) ==
    IF k > Len(t.kids) THEN <<>>
    ELSE (IF k > 1 THEN <<",">> ELSE <<>>) \o <<LF>> \o Repeat(<<" ">>, (d + 1) * n)
         \o (IF t.type = "obj" THEN <<DQ, KeyNames[k], DQ, ":", " ">> ELSE <<>>)
         \o RenderPretty(t.kids[k], n, d + 1)
         \o RenderPrettyKids(t, k + 1, n, d)

PlainLayoutTrees == {t \in LayoutTrees : \A k \in 1..Len(t.kids) : t.kids[k].type # "esc"}

InitBeautify ==
    \E t \in PlainLayoutTrees, sp \in Writings, n \in 0..MaxIndent :
        Start(RenderSpaced(t, sp), RenderPretty(t, n, 0),
              [DefaultConfig EXCEPT !.beautify = TRUE, !.indent_size = n])

SpecBeautify == InitBeautify /\ [][Next]_vars

\* C20: with beautify = TRUE, indent_style = Spaces and indent_size = n,
\* the output for an accepted input has every element and every pair at
\* nesting depth d on its own line behind exactly (d + 1) * n spaces, the
\* closing bracket on its own line behind d * n spaces, a comma at the end
\* of the line of every element or pair but the last, and exactly one
\* space after each colon.
C20_BeautifyLayout ==
    (pc = "fixed" /\ result.ok) => result.text = expect

\* the same, for inputs without whitespace and a comma after an opening
\* square bracket
C20_LayoutUnlessCommaLeadsArray ==
    (pc = "fixed" /\ result.ok /\ ~CommaLeadsArray(input)) => result.text = expect

(***************************************************************************)
(* SpecSorted: objects of up to MaxKeys pairs with distinct keys in every  *)
(* source order, the first pair's value a number or an object of the same  *)
(* kind, written compact or with whitespace, fixed with sort_keys = TRUE,  *)
(* beautify = TRUE and indent_size = 4 (expect = the object written one    *)
(* pair per line with the keys of every object in ascending order)         *)
(***************************************************************************)
MaxKeys == 3

\* the keys, each with the number that is its value wherever it is used
SortKeys ==
    {[key |-> <<"a", "<U+00E9>">>, num |-> <<"1">>], [key |-> <<"a">>, num |-> <<"2">>],
     [key |-> <<"B">>, num |-> <<"3">>], [key |-> <<"a", "b">>, num |-> <<"4">>]}

Pair(k, pairs) == [key |-> k.key, num |-> k.num, pairs |-> pairs]

KeyOrders ==
    {ks \in SeqsOf(SortKeys, 1, MaxKeys) : \A i, j \in 1..Len(ks) : i # j => ks[i] # ks[j]}

FlatObjects == {[i \in 1..Len(ks) |-> Pair(ks[i], <<>>)] : ks \in KeyOrders}

\* a flat object, or one whose first pair holds a flat object
KeyedObjects ==
    FlatObjects \cup {[obj EXCEPT ![1].pairs = inner] : obj \in FlatObjects, inner \in FlatObjects}

\* the source text of a keyed object, gap at every place whitespace may stand
RECURSIVE WriteKeyed(_, _)
WriteKeyed(pairs, gap) ==
    LET Value(p) == IF p.pairs = <<>> THEN p.num ELSE WriteKeyed(p.pairs, gap)
        Entry(i) == (IF i > 1 THEN <<",">> ELSE <<>>) \o gap \o <<DQ>> \o pairs[i].key \o <<DQ>>
                    \o gap \o <<":">> \o gap \o Value(pairs[i]) \o gap
    IN  <<"{">> \o Flatten([i \in 1..Len(pairs) |-> Entry(i)]) \o <<"}">>

\* text a comes before text b in the order of the code points
LexLess(a, b) ==
    \E i \in 1..Len(b) :
        /\ Len(a) >= i - 1
        /\ SubSeq(a, 1, i - 1) = SubSeq(b, 1, i - 1)
        /\ (Len(a) = i - 1 \/ CharCode(a[i]) < CharCode(b[i]))

\* the pairs (with distinct keys) in ascending order of their keys
Ascending(pairs) ==
    LET Rank(p) == 1 + Cardinality({i \in 1..Len(pairs) : LexLess(pairs[i].key, p.key)})
    IN  [r \in 1..Len(pairs) |-> pairs[CHOOSE i \in 1..Len(pairs) : Rank(pairs[i]) = r]]

\* the keyed object at nesting depth d, keys ascending, one pair per line
\* behind 4 * (d + 1) spaces, the closing brace behind 4 * d spaces
RECURSIVE PrettySorted(_, _)
PrettySorted(pairs, d) ==
    LET sorted == Ascending(pairs)
        Value(p) == IF p.pairs = <<>> THEN p.num ELSE PrettySorted(p.pairs, d + 1)
        Line(i) == (IF i > 1 THEN <<",">> ELSE <<>>) \o <<LF>> \o Repeat(<<" ">>, 4 * (d + 1))
                   \o <<DQ>> \o sorted[i].key \o <<DQ, ":", " ">> \o Value(sorted[i])
    IN  <<"{">> \o Flatten([i \in 1..Len(pairs) |-> Line(i)])
              \o <<LF>> \o Repeat(<<" ">>, 4 * d) \o <<"}">>

SortedConfig == Config(FALSE, FALSE, TRUE, "Spaces", 4, TRUE)

InitSorted ==
    \E obj \in KeyedObjects, gap \in Gaps :
        Start(WriteKeyed(obj, gap), PrettySorted(obj, 0), SortedConfig)

SpecSorted == InitSorted /\ [][Next]_vars

\* C21: with sort_keys = TRUE, beautify = TRUE and indent_size = 4, the
\* keys of every rendered object, at every nesting depth, are in ascending
\* lexicographic order whatever their source order, each pair is on its
\* own indented line, and each key keeps its own value.
C21_KeysSorted ==
    pc = "fixed" => result = Ok(expect)

\* an object whose keys are written in descending order, with a nested
\* object whose keys are too, comes out with both in ascending order
C21_Witness ==
    /\ pc = "fixed"
    /\ input = <<"{", DQ, "a", "<U+00E9>", DQ, ":", "{", DQ, "a", "<U+00E9>", DQ, ":", "1", ",",
                 DQ, "a", DQ, ":", "2", "}",
                 ",", DQ, "a", "b", DQ, ":", "4", ",", DQ, "B", DQ, ":", "3", "}">>
    /\ result = Ok(expect)
    /\ result.text # FixWithConfig(input, [SortedConfig EXCEPT !.sort_keys = FALSE]).text

(***************************************************************************)
(* SpecOrder: the keyed objects in every source order, and arrays of up to *)
(* MaxKeys distinct elements in every order, written compact or with       *)
(* whitespace and fixed in the four modes; the objects with sort_keys =    *)
(* FALSE, the arrays with sort_keys off and on (expect is not used)        *)
(***************************************************************************)
ModeConfigs ==
    {DefaultConfig,
     [DefaultConfig EXCEPT !.space_between = TRUE],
     [DefaultConfig EXCEPT !.beautify = TRUE, !.indent_size = 2],
     [DefaultConfig EXCEPT !.preserve = TRUE]}

ArrayItems == {<<"3">>, <<"1">>, <<"2">>, <<"[", "5", ",", "4", "]">>}

ItemOrders ==
    {xs \in SeqsOf(ArrayItems, 1, MaxKeys) : \A i, j \in 1..Len(xs) : i # j => xs[i] # xs[j]}

WriteItems(xs, gap) ==
    <<"[">> \o Flatten([i \in 1..Len(xs) |->
                           (IF i > 1 THEN <<",">> ELSE <<>>) \o gap \o xs[i] \o gap]) \o <<"]">>

\* the letters and digits of a text, in the order they stand in it
Atoms(text) == SelectSeq(text, IsAlphanumeric)

InitOrder ==
    \E gap \in Gaps, cfg \in ModeConfigs :
        \/ \E obj \in KeyedObjects : Start(WriteKeyed(obj, gap), <<>>, cfg)
        \/ \E xs \in ItemOrders, sk \in BOOLEAN :
              Start(WriteItems(xs, gap), <<>>, [cfg EXCEPT !.sort_keys = sk])

SpecOrder == InitOrder /\ [][Next]_vars

\* C22: with sort_keys = FALSE, in every mode, the pairs of each object and
\* the elements of each array are emitted in source order, and array
\* elements keep their order when sort_keys is set too: the keys and
\* numbers of the output are those of the input, in the same order.
C22_SourceOrderKept ==
    pc = "fixed" => result.ok /\ Atoms(result.text) = Atoms(input)

\* an object with descending keys and a nested one, in beautify mode
C22_Witness ==
    /\ pc = "fixed"
    /\ config.beautify /\ ~config.sort_keys
    /\ input = <<"{", DQ, "a", "<U+00E9>", DQ, ":", "{", DQ, "a", "<U+00E9>", DQ, ":", "1", ",",
                 DQ, "a", DQ, ":", "2", "}",
                 ",", DQ, "a", DQ, ":", "2", "}">>
    /\ result.ok
    /\ Atoms(result.text) = <<"a", "<U+00E9>", "a", "<U+00E9>", "1", "a", "2", "a", "2">>

(***************************************************************************)
(* SpecDefectEntries: containers that hold values, with whitespace and     *)
(* extra commas after the opener, between two entries and before the       *)
(* closer, fixed in the three non-preserve modes (expect = the document    *)
(* in the layout of the mode, one comma between two entries)               *)
(***************************************************************************)
\* containers of one or two entries, each a scalar or a container of one or
\* two numbers
DefectTrees ==
    {t \in SpacedTrees :
        /\ t.kids # <<>>
        /\ \A k \in 1..Len(t.kids) : t.kids[k].type \in {"arr", "obj"} => t.kids[k].kids # <<>>}

LeadDefects == {<<>>, <<" ", ",">>, <<" ", ",", " ", ",">>}

MiddleDefects == {<<",">>, <<",", " ", ",">>, <<" ", ",", " ">>}

TrailDefects == {<<>>, <<" ">>, <<" ", ",">>, <<",", " ">>}

LayoutOf(t, cfg) ==
    IF cfg.beautify THEN RenderPretty(t, cfg.indent_size, 0)
    ELSE IF cfg.space_between THEN RenderSpaced(t, SpaceBetweenLayout)
    ELSE Compact(t)

InitDefectEntries ==
    \E t \in DefectTrees, cfg \in NonPreserveConfigs :
        \E lead \in LeadDefects, sep \in MiddleDefects, trail \in TrailDefects :
            Start(Render(t, lead, sep, trail), LayoutOf(t, cfg), cfg)

SpecDefectEntries == InitDefectEntries /\ [][Next]_vars

\* C23: entries without a value, made by whitespace followed by a comma or
\* by the closing bracket, never show in non-preserve output: wherever they
\* sit (first, middle, last), the rendered container has exactly one comma
\* between two consecutive entries with a value, none before the first and
\* none after the last.
C23_DefectEntriesHidden ==
    pc = "fixed" => result = Ok(expect)

\* the same, for inputs in which no opening square bracket is followed by
\* whitespace and a comma
C23_HiddenUnlessFirstInArray ==
    (pc = "fixed" /\ ~CommaLeadsArray(input)) => result = Ok(expect)

(***************************************************************************)
(* SpecTabs: the layout family without escape sequences, written compact,  *)
(* fixed with beautify = TRUE, indent_style = Tabs and indent_size =       *)
(* 0..MaxIndent (expect = the tree written one entry per line, indented    *)
(* by indent_size tabs per nesting level)                                  *)
(***************************************************************************)
\* the layout of RenderPretty with an indentation unit of n tab characters
RECURSIVE RenderTabbed(_, _, _)
RECURSIVE RenderTabbedKids(_, _, _, _)
RenderTabbed(t, n, d) ==
    LET Body == IF t.kids = <<>> THEN <<>>
                ELSE RenderTabbedKids(t, 1, n, d) \o <<LF>> \o Repeat(<<TAB>>, d * n)
    IN  CASE t.type = "num" -> <<"1">>
          [] t.type = "str" -> <<DQ, "s", DQ>>
          [] t.type = "arr" -> <<"[">> \o Body \o <<"]">>
          [] t.type = "obj" -> <<"{">> \o Body \o <<"}">>

RenderTabbedKids(t, k, n, d) ==
    IF k > Len(t.kids) THEN <<>>
    ELSE (IF k > 1 THEN <<",">> ELSE <<>>) \o <<LF>> \o Repeat(<<TAB>>, (d + 1) * n)
         \o (IF t.type = "obj" THEN <<DQ, KeyNames[k], DQ, ":", " ">> ELSE <<>>)
         \o RenderTabbed(t.kids[k], n, d + 1)
         \o RenderTabbedKids(t, k + 1, n, d)

InitTabs ==
    \E t \in PlainLayoutTrees, n \in 0..MaxIndent :
        Start(Compact(t), RenderTabbed(t, n, 0),
              [DefaultConfig EXCEPT !.beautify = TRUE, !.indent_style = "Tabs",
                                    !.indent_size = n])

SpecTabs == InitTabs /\ [][Next]_vars

\* C24: with beautify = TRUE and indent_style = Tabs the indentation unit
\* is indent_size tab characters: a pair or element at nesting depth d is
\* preceded by (d + 1) * indent_size tabs and the closing bracket by
\* d * indent_size tabs.
C24_TabsTimesIndentSize ==
    pc = "fixed" => result = Ok(expect)

\* the same, for indent_size = 1
C24_OneTabPerLevel ==
    (pc = "fixed" /\ config.indent_size = 1) => result = Ok(expect)

(***************************************************************************)
(* SpecMissingPreserve: an array or object of two entries with only        *)
(* whitespace between them, fixed with preserve = TRUE.  expect = [type:   *)
(* the container's type, open, gap, close: the input before, in and after  *)
(* the whitespace]                                                         *)
(***************************************************************************)
SeparatingGaps == {<<" ">>, <<" ", " ">>, <<LF>>, <<LF, " ">>, <<" ", LF>>}

ArrayElements ==
    {<<"1">>, <<DQ, "s", DQ>>, <<"[", "1", "]">>, <<"{", DQ, "a", DQ, ":", "1", "}">>,
     <<"t", "r", "u", "e">>}

ObjectEntries ==
    {<<DQ, "a", DQ, ":", "1">>, <<"b", ":", DQ, "s", DQ>>, <<DQ, "c", DQ, ":", "n", "u", "l", "l">>}

\* the text of a pair as preserve mode writes it: the key in double quotes
Quoted(entry) == IF entry[1] = "b" THEN <<DQ, "b", DQ>> \o Tail(entry) ELSE entry

HasNewline(gap) == \E k \in 1..Len(gap) : gap[k] = LF

InitMissingPreserve ==
    \E gap \in SeparatingGaps :
        \/ \E x \in ArrayElements, y \in ArrayElements :
              Start(<<"[">> \o x \o gap \o y \o <<"]">>,
                    [type |-> "arr", open |-> <<"[">> \o x, gap |-> gap, close |-> y \o <<"]">>],
                    PreserveConfig)
        \/ \E x \in ObjectEntries, y \in ObjectEntries :
              Start(<<"{">> \o x \o gap \o y \o <<"}">>,
                    [type |-> "obj", open |-> <<"{">> \o Quoted(x), gap |-> gap,
                     close |-> Quoted(y) \o <<"}">>],
                    PreserveConfig)

SpecMissingPreserve == InitMissingPreserve /\ [][Next]_vars

\* C25: in preserve mode the comma that separates an element or entry from
\* the next one is written before the whitespace that follows the value
\* when that whitespace contains a newline, and after it otherwise; two
\* elements separated only by a newline get the comma at the end of the
\* first element's line.
C25_CommaStaysOnLine ==
    pc = "fixed" =>
        result = Ok(expect.open
                    \o (IF HasNewline(expect.gap) THEN <<",">> \o expect.gap
                        ELSE expect.gap \o <<",">>)
                    \o expect.close)

\* what the code does: in an array the comma follows the whitespace, in an
\* object (after a scalar value) it precedes it, newline or not
C25_CommaPlacedByContainerKind ==
    pc = "fixed" =>
        result = Ok(expect.open
                    \o (IF expect.type = "obj" THEN <<",">> \o expect.gap
                        ELSE expect.gap \o <<",">>)
                    \o expect.close)

(***************************************************************************)
(* SpecTopLevelTrailing: a top-level value followed by whitespace up to    *)
(* the end of the input, fixed with preserve on and off.  expect = <<the   *)
(* value's text, the whitespace after it>>                                 *)
(***************************************************************************)
TopLevelValues ==
    {<<"1">>, <<DQ, "s", DQ>>, <<"t", "r", "u", "e">>, <<"n", "u", "l", "l">>,
     <<"[", "]">>, <<"{", "}">>, <<"[", "1", "]">>, <<"{", DQ, "a", DQ, ":", "1", "}">>}

TrailingGaps == SeparatingGaps \cup {<<TAB>>, <<CR, LF>>}

InitTopLevelTrailing ==
    \E v \in TopLevelValues, gap \in TrailingGaps, cfg \in {DefaultConfig, PreserveConfig} :
        Start(v \o gap, <<v, gap>>, cfg)

SpecTopLevelTrailing == InitTopLevelTrailing /\ [][Next]_vars

\* C26: with preserve = TRUE the whitespace tokens after the top-level
\* value are accumulated into the output; with preserve = FALSE they are
\* dropped.
C26_TrailingWhitespaceByMode ==
    pc = "fixed" =>
        result = Ok(IF config.preserve THEN expect[1] \o expect[2] ELSE expect[1])

\* what the code does: the whitespace after the top-level value is dropped
\* in both modes
C26_TrailingWhitespaceDropped == pc = "fixed" => result = Ok(expect[1])

(***************************************************************************)
(* SpecTurns: one call of fix followed turn by turn.  An action is one     *)
(* turn of a loop of the parser, up to the next test of a loop condition:  *)
(* a turn that meets a container value enters parse_object / parse_array   *)
(* and stops at the condition of the inner loop; a turn that leaves a loop *)
(* finishes the turn of the caller that was waiting for the value.         *)
(* run = the parser at that point; pc = "ready", "parsing", "parsed";     *)
(* expect is not used.                                                     *)
(***************************************************************************)
MaxTokens == 4

TurnLexemes ==
    {<<"{">>, <<"}">>, <<"[">>, <<"]">>, <<",">>, <<":">>, <<" ">>, <<"k">>, <<"1">>, <<DQ>>}

RECURSIVE LexemeTexts(_)
LexemeTexts(n) ==
    IF n = 0 THEN {<<>>}
    ELSE LET shorter == LexemeTexts(n - 1)
         IN  shorter \cup {t \o x : t \in shorter, x \in TurnLexemes}

\* a frame of the call stack: the routine and the token that opened its value
Frame(type, opener) == [type |-> type, opener |-> opener]

RunErr(err, p, stack) == Run(p, stack, "err", err)

\* what is still to be consumed: the lookahead and the characters behind it
Ahead(s, p) == (Len(s) + 1 - p.tz.i) + (IF p.cur.type = "None" THEN 0 ELSE 1)

\* Ok(a.p) back at the loop condition, or the error of `?`
BackInLoop(a, stack) ==
    IF a.ok THEN Run(a.p, stack, "loop", NoError) ELSE RunErr(a.err, a.p, stack)

\* the caller after parse_value() returned Ok, up to its next loop condition:
\* parse() advances and enters the loop on trailing whitespace; parse_object
\* takes the spaces after the value and advances; parse_array advances when
\* the lookahead is still the token the value began with, then takes the
\* spaces
AfterValue(p, stack, curr_t) ==
    CASE stack = <<>> ->
            \E a \in {ParserAdvance(input, p)} :
                run' = IF a.ok THEN Run(a.p, stack, "trailing", NoError)
                       ELSE RunErr(a.err, a.p, stack)
      [] Head(stack).type = "Object" ->
            \E w \in {ConsumeSpaces(input, p)} :
                IF ~w.ok THEN run' = RunErr(w.err, w.p, stack)
                ELSE \E a \in {ParserAdvance(input, w.p)} : run' = BackInLoop(a, stack)
      [] curr_t = p.cur ->
            \E a \in {ParserAdvance(input, p)} :
                IF ~a.ok THEN run' = RunErr(a.err, a.p, stack)
                ELSE \E w \in {ConsumeSpaces(input, a.p)} : run' = BackInLoop(w, stack)
      [] OTHER -> \E w \in {ConsumeSpaces(input, p)} : run' = BackInLoop(w, stack)

\* parse_value() on a token that opens no container: the token stays the
\* lookahead
PrimitiveValue(p) ==
    LET t == p.cur
    IN  CASE t.type \in {"String", "Boolean", "Null"} -> ParseOk(JNull, p)
          [] t.type = "Number" ->
                IF IsF64Text(t.text) THEN ParseOk(JNull, p)
                ELSE ParseErr(SyntaxError("InvalidNumber", t.text, t.pos), p)
          [] t.type = "UnquotedString" ->
                ParseErr(SyntaxError("UnexpectedToken", t.text, t.pos), p)
          [] t.type = "None" ->
                ParseErr(SyntaxError("UnexpectedEndOfInput", <<>>, CurrentPosition(p.tz)), p)
          [] OTHER -> ParseErr(SyntaxError("UnexpectedToken", <<>>, t.pos), p)

\* parse_value() called under `stack`: a bracket enters parse_object or
\* parse_array, which consumes it and reaches its loop condition; any other
\* token is settled at once (the value itself is not followed)
EnterValue(p, stack) ==
    LET Entered(type) ==
            \E a \in {ParserAdvance(input, p)} :
                run' = IF a.ok THEN Run(a.p, <<Frame(type, p.cur)>> \o stack, "loop", NoError)
                       ELSE RunErr(a.err, a.p, stack)
    IN  CASE p.cur.type = "LeftBrace" -> Entered("Object")
          [] p.cur.type = "LeftBracket" -> Entered("Array")
          [] OTHER ->
                \E v \in {PrimitiveValue(p)} :
                    IF v.ok THEN AfterValue(v.p, stack, p.cur)
                    ELSE run' = RunErr(v.err, v.p, stack)

\* the loop of parse_object / parse_array is left: advance()? (consume the
\* closer), Ok(value), and the caller goes on
LeaveLoop(p, stack) ==
    \E a \in {ParserAdvance(input, p)} :
        IF a.ok THEN AfterValue(a.p, Tail(stack), Head(stack).opener)
        ELSE run' = RunErr(a.err, a.p, stack)

\* `self.advance()?; continue;`
ContinueLoop(p, stack) ==
    \E a \in {ParserAdvance(input, p)} : run' = BackInLoop(a, stack)

\* a turn of the trailing loop that does not take the whitespace
TrailingTurnKeepsSpace(p, stack) ==
    CASE p.cur.type = "Whitespace" -> run' = Run(p, stack, "trailing", NoError)
      [] p.cur.type = "None" -> run' = Run(p, stack, "ok", NoError)
      [] OTHER -> run' = RunErr(SyntaxError("UnexpectedToken", <<>>, p.cur.pos), p, stack)

\* a turn of the loop of parse(): whitespace is consumed, EOF ends the call,
\* any other token is fatal
TrailingTurn(p, stack) ==
    CASE p.cur.type = "Whitespace" ->
            \E a \in {ParserAdvance(input, p)} :
                run' = IF a.ok THEN Run(a.p, stack, "trailing", NoError)
                       ELSE RunErr(a.err, a.p, stack)
      [] p.cur.type = "None" -> run' = Run(p, stack, "ok", NoError)
      [] OTHER -> run' = RunErr(SyntaxError("UnexpectedToken", <<>>, p.cur.pos), p, stack)

\* a turn of `while !current_token.is_none()` in parse_object
ObjectTurn(p, stack) ==
    LET BeforeValue(q) ==
            \E w2 \in {ConsumeSpaces(input, q)} :
                IF w2.ok THEN EnterValue(w2.p, stack) ELSE run' = RunErr(w2.err, w2.p, stack)
        ExpectColon(q) ==
            CASE q.cur.type = "Colon" ->
                    \E a \in {ParserAdvance(input, q)} :
                        IF a.ok THEN BeforeValue(a.p) ELSE run' = RunErr(a.err, a.p, stack)
              [] q.cur.type = "None" ->
                    run' = RunErr(SyntaxError("UnexpectedEndOfInput", <<>>,
                                              CurrentPosition(q.tz)), q, stack)
              [] OTHER -> run' = RunErr(SyntaxError("UnexpectedToken", <<>>, q.cur.pos), q, stack)
        KeyTaken(q) ==
            \E w1 \in {ConsumeSpaces(input, q)} :
                IF w1.ok THEN ExpectColon(w1.p) ELSE run' = RunErr(w1.err, w1.p, stack)
        Key(q) ==
            CASE q.cur.type \in {"None", "RightBrace"} -> LeaveLoop(q, stack)
              [] q.cur.type = "Comma" -> ContinueLoop(q, stack)
              [] q.cur.type \in {"String", "UnquotedString"} ->
                    \E a \in {ParserAdvance(input, q)} :
                        IF a.ok THEN KeyTaken(a.p) ELSE run' = RunErr(a.err, a.p, stack)
              [] OTHER -> run' = RunErr(SyntaxError("UnexpectedToken", <<>>, q.cur.pos), q, stack)
    IN  CASE p.cur.type \in {"None", "RightBrace"} -> LeaveLoop(p, stack)
          [] p.cur.type = "Comma" -> ContinueLoop(p, stack)
          [] OTHER ->
                \E w \in {ConsumeSpaces(input, p)} :
                    IF w.ok THEN Key(w.p) ELSE run' = RunErr(w.err, w.p, stack)

\* a turn of `while !current_token.is_none()` in parse_array
ArrayTurn(p, stack) ==
    LET Entry(q) ==
            CASE q.cur.type = "RightBracket" -> LeaveLoop(q, stack)
              [] q.cur.type = "Comma" -> ContinueLoop(q, stack)
              [] OTHER -> EnterValue(q, stack)
    IN  CASE p.cur.type \in {"None", "RightBracket"} -> LeaveLoop(p, stack)
          [] p.cur.type = "Comma" -> ContinueLoop(p, stack)
          [] OTHER ->
                \E w \in {ConsumeSpaces(input, p)} :
                    IF w.ok THEN Entry(w.p) ELSE run' = RunErr(w.err, w.p, stack)

\* the call has returned once the run stands at Ok or Err
Returns ==
    /\ pc' = IF run'.status \in {"ok", "err"} THEN "parsed" ELSE "parsing"
    /\ UNCHANGED <<input, expect, config, result, first>>

\* JsonParser::new, then parse() up to the first loop condition
ParseBegin ==
    /\ pc = "ready"
    /\ \E p \in {ParserNew(input)} :
           \E w \in {ConsumeSpaces(input, p)} :
               IF w.ok THEN EnterValue(w.p, <<>>) ELSE run' = RunErr(w.err, w.p, <<>>)
    /\ Returns

ParseObjectTurn ==
    /\ pc = "parsing"
    /\ run.status = "loop"
    /\ Head(run.stack).type = "Object"
    /\ ObjectTurn(run.p, run.stack)
    /\ Returns

ParseArrayTurn ==
    /\ pc = "parsing"
    /\ run.status = "loop"
    /\ Head(run.stack).type = "Array"
    /\ ArrayTurn(run.p, run.stack)
    /\ Returns

ParseTrailingTurn ==
    /\ pc = "parsing"
    /\ run.status = "trailing"
    /\ TrailingTurn(run.p, run.stack)
    /\ Returns

NextTurns == ParseBegin \/ ParseObjectTurn \/ ParseArrayTurn \/ ParseTrailingTurn

InitTurns == \E text \in LexemeTexts(MaxTokens) : Start(text, <<>>, DefaultConfig)

\* the call is sequential: a turn that can be taken is taken
SpecTurns == InitTurns /\ [][NextTurns]_vars /\ WF_vars(NextTurns)

\* next_token() at any index of the input (which no turn changes): a
\* character is consumed, or the input is exhausted and Ok(None) is returned
TokenizerConsumes ==
    pc = "ready" =>
        \A i \in 1..(Len(input) + 1) :
            LET Moved(r) ==
                    \/ r.tz.i > i
                    \/ i > Len(input) /\ r.ok /\ r.tok = NoneToken
            IN  Moved(NextToken(input, [i |-> i, line |-> 1, column |-> 0]))

\* a turn of a loop consumes a token, leaves the loop or returns an error
TurnConsumes ==
    pc = "parsing" =>
        \/ Ahead(input, run'.p) < Ahead(input, run.p)
        \/ Len(run'.stack) < Len(run.stack)
        \/ run'.status \in {"ok", "err"}

\* C27: fix terminates on every finite input: each call of the tokenizer
\* consumes at least one character or reports the end of the input, and
\* each turn of the loops of parse_object, parse_array and parse (trailing
\* whitespace) consumes at least one token, leaves the loop or returns an
\* error.
C27_Terminates ==
    /\ <>(pc = "parsed")
    /\ [][TurnConsumes]_vars
    /\ []TokenizerConsumes

\* an unclosed object holding an unclosed array is parsed to the end
C27_Witness ==
    /\ pc = "parsed"
    /\ input = <<"{", "k", ":", "[">>
    /\ run.status = "ok"
    /\ run.stack = <<>>

\* the call followed turn by turn ends as the call made at once
C27_TurnsAgreeWithParse ==
    pc = "parsed" =>
        LET Same(r) == r.ok = (run.status = "ok") /\ r.err = run.err
        IN  Same(FixWithConfig(input, config))

(***************************************************************************)
(* SpecWhitespace: a text of 1..MaxSpaced lexemes written twice, with a    *)
(* space only where two lexemes would otherwise run together, and with a   *)
(* space at a drawn set of further gaps (gap 0 stands before the first     *)
(* lexeme, gap n after the last), fixed in the modes without preserve.     *)
(* expect = [bare: the first writing, sheltered: whether every added space *)
(* stands away from the places named in C28_SameWhenSheltered]             *)
(***************************************************************************)
MaxSpaced == 3

SpacedLexemes ==
    {<<"{">>, <<"}">>, <<"[">>, <<"]">>, <<",">>, <<":">>, <<"k">>, <<"1">>, <<DQ, "s", DQ>>}

RECURSIVE LexemeLists(_)
LexemeLists(n) ==
    IF n = 0 THEN {<<>>}
    ELSE LET shorter == LexemeLists(n - 1)
         IN  shorter \cup {Append(l, x) : l \in shorter, x \in SpacedLexemes}

\* lexemes that one token would swallow when written side by side
RunTogether(x, y) == x \in {<<"k">>, <<"1">>} /\ y \in {<<"k">>, <<"1">>}

NeededGaps(l) == {i \in 1..(Len(l) - 1) : RunTogether(l[i], l[i + 1])}

\* the lexemes with a space at every gap of `gaps`
RECURSIVE WriteLexemes(_, _, _)
WriteLexemes(l, gaps, i) ==
    IF i > Len(l) THEN IF Len(l) \in gaps THEN <<" ">> ELSE <<>>
    ELSE (IF (i - 1) \in gaps THEN <<" ">> ELSE <<>>) \o l[i] \o WriteLexemes(l, gaps, i + 1)

\* no added space stands directly before a comma or a closing square
\* bracket, directly after a closing bracket, or at the end of the text
Sheltered(l, added) ==
    \A i \in added :
        /\ i < Len(l)
        /\ l[i + 1] \notin {<<",">>, <<"]">>}
        /\ i > 0 => l[i] \notin {<<"}">>, <<"]">>}

InitWhitespace ==
    \E l \in LexemeLists(MaxSpaced) \ {<<>>}, cfg \in NonPreserveConfigs :
        \E added \in SUBSET ((0..Len(l)) \ NeededGaps(l)) :
            Start(WriteLexemes(l, added \cup NeededGaps(l), 1),
                  [bare |-> WriteLexemes(l, NeededGaps(l), 1), sheltered |-> Sheltered(l, added)],
                  cfg)

SpecWhitespace == InitWhitespace /\ [][Next]_vars

\* the same Ok text, or an error of the same kind
SameOutcome(a, b) ==
    /\ a.ok = b.ok
    /\ a.ok => a.text = b.text
    /\ ~a.ok => a.err.kind = b.err.kind

\* C28: without preserve the result does not depend on the whitespace of
\* the input: two inputs whose token streams are equal once the Whitespace
\* tokens are removed give the same outcome (the same Ok text, or an error
\* of the same kind).
C28_WhitespaceIgnored ==
    pc = "fixed" => SameOutcome(result, FixWithConfig(expect.bare, config))

\* the outcome is the same when no added space stands directly before a
\* comma or a closing square bracket, directly after a closing bracket, or
\* at the end of the text
C28_SameWhenSheltered ==
    pc = "fixed" /\ expect.sheltered =>
        SameOutcome(result, FixWithConfig(expect.bare, config))

(***************************************************************************)
(* SpecClosers: texts of 1..MaxBrackets lexemes among the two opening and  *)
(* the two closing brackets (an object opens with its first key and        *)
(* colon), a number and a comma, fixed with the default configuration.     *)
(* expect = the index of the first closing bracket that does not close the *)
(* innermost open container of its kind, 0 when every closer does          *)
(***************************************************************************)
MaxBrackets == 5

BracketLexemes ==
    {<<"[">>, <<"]">>, <<"{", DQ, "a", DQ, ":">>, <<"}">>, <<"1">>, <<",">>}

RECURSIVE BracketTexts(_)
BracketTexts(n) ==
    IF n = 0 THEN {<<>>}
    ELSE LET shorter == BracketTexts(n - 1)
         IN  shorter \cup {t \o x : t \in shorter, x \in BracketLexemes}

\* the scan from index i with `open` the opening brackets not yet closed,
\* innermost first
RECURSIVE FirstStrayCloser(_, _, _)
FirstStrayCloser(text, i, open) ==
    IF i > Len(text) THEN 0
    ELSE CASE text[i] \in {"[", "{"} -> FirstStrayCloser(text, i + 1, <<text[i]>> \o open)
           [] text[i] \in {"]", "}"} ->
                IF open # <<>> /\ Head(open) = (IF text[i] = "]" THEN "[" ELSE "{")
                THEN FirstStrayCloser(text, i + 1, Tail(open))
                ELSE i
           [] OTHER -> FirstStrayCloser(text, i + 1, open)

InitClosers ==
    \E text \in BracketTexts(MaxBrackets) \ {<<>>} :
        Start(text, FirstStrayCloser(text, 1, <<>>), DefaultConfig)

SpecClosers == InitClosers /\ [][Next]_vars

\* C29: a closing bracket is accepted only as the closer of the innermost
\* open container of the same kind: a ']' while an object is innermost, a
\* '}' while an array is innermost, or any closer with no container open
\* gives UnexpectedToken, so in every Ok run each closer closes exactly one
\* container.
C29_StrayCloserRejected ==
    pc = "fixed" /\ expect > 0 => ~result.ok /\ result.err.kind = "UnexpectedToken"

\* a stray closer is rejected when no closing bracket stands before it
C29_RejectedWhenFirstCloser ==
    pc = "fixed" /\ expect > 0 /\ (\A j \in 1..(expect - 1) : input[j] \notin {"]", "}"}) =>
        ~result.ok /\ result.err.kind = "UnexpectedToken"

(***************************************************************************)
(* SpecPositions: a top-level value and whitespace followed by one more    *)
(* token (which parse rejects where it stands), or an opening bracket      *)
(* followed by a number token that is not a number; also the value and the *)
(* whitespace alone.  expect = [kind: the error the token must give,       *)
(* "None" without a token; before: the text before the token; token: the   *)
(* token's text]                                                           *)
(***************************************************************************)
LeadingValues == {<<"1">>, <<DQ, "a", "b", DQ>>, <<"n", "u", "l", "l">>}

PositionGaps == {<<" ">>, <<" ", " ">>, <<LF>>, <<LF, " ">>, <<" ", LF, LF>>}

RejectedTokens ==
    {<<"7">>, <<"1", "2">>, <<"-", "3", ".", "5">>, <<DQ, "s", DQ>>, <<SQ, "s", SQ>>,
     <<"k">>, <<"k", "e", "y">>, <<"t", "r", "u", "e">>, <<"n", "u", "l", "l">>,
     <<"{">>, <<"}">>, <<"[">>, <<"]">>, <<",">>, <<":">>}

\* number tokens that parse_value rejects
MalformedNumbers == {<<"1", "e">>, <<"1", "-", "2">>, <<"1", "2", "e", "+">>, <<"1", ".", "2", ".", "3">>}

TokenSuffixes == {<<>>, <<" ", "1">>}

\* line from 1; column incremented per character and reset to 1 on a
\* newline: the position of the character that follows `before`
RECURSIVE PositionAfter(_, _, _)
PositionAfter(before, line, column) ==
    IF before = <<>> THEN Position(line, column + 1)
    ELSE IF Head(before) = LF THEN PositionAfter(Tail(before), line + 1, 1)
    ELSE PositionAfter(Tail(before), line, column + 1)

InitPositions ==
    \/ \E v \in LeadingValues, gap \in PositionGaps :
          \/ Start(v \o gap, [kind |-> "None", before |-> v \o gap, token |-> <<>>],
                   DefaultConfig)
          \/ \E tok \in RejectedTokens, suffix \in TokenSuffixes :
                Start(v \o gap \o tok \o suffix,
                      [kind |-> "UnexpectedToken", before |-> v \o gap, token |-> tok],
                      DefaultConfig)
    \/ \E gap \in PositionGaps \cup {<<>>}, tok \in MalformedNumbers, suffix \in TokenSuffixes :
          Start(<<"[">> \o gap \o tok \o suffix,
                [kind |-> "InvalidNumber", before |-> <<"[">> \o gap, token |-> tok],
                DefaultConfig)

SpecPositions == InitPositions /\ [][Next]_vars

\* C30: every token carries the position of its first character (line from
\* 1, column incremented per character, reset to 1 on a newline), whatever
\* its kind, so that the parser's errors (UnexpectedToken, InvalidNumber)
\* point at the start of the offending token.
C30_ErrorAtTokenStart ==
    pc = "fixed" =>
        IF expect.kind = "None" THEN result.ok
        ELSE /\ ~result.ok
             /\ result.err.kind = expect.kind
             /\ result.err.pos = PositionAfter(expect.before, 1, 0)

\* what the code does: a number token carries the position of its last
\* character, every other token that of its first
C30_ErrorAtNumberEnd ==
    pc = "fixed" /\ expect.kind # "None" =>
        /\ ~result.ok
        /\ result.err.kind = expect.kind
        /\ result.err.pos =
              IF IsDigit(expect.token[1]) \/ expect.token[1] = "-"
              THEN PositionAfter(expect.before \o SubSeq(expect.token, 1, Len(expect.token) - 1), 1, 0)
              ELSE PositionAfter(expect.before, 1, 0)

====
